---- MODULE Spec2Model ----
(***************************************************************************)
(* A model of the software rasteriser's Color and Framebuffer types        *)
(* (src/src/color.rs, src/src/framebuffer.rs) and of the fragment stage of *)
(* render (src/src/main.rs).                                               *)
(*                                                                         *)
(* f32 values are records [k, n, d]: k = "fin" is the finite value n / d,   *)
(* k = "inf" is +infinity, k = "ninf" is -infinity and k = "nan" is NaN.   *)
(* A Color is a record [r, g, b] of 8-bit channels; packed colours (u32)   *)
(* are naturals.  A Framebuffer is a record with the fields of the struct; *)
(* its two Vecs are functions on 0 .. len-1.  The extra field panic models *)
(* Rust's abort on an out-of-range Vec index.                              *)
(***************************************************************************)
EXTENDS Integers, Sequences, FiniteSets, TLC

VARIABLES
    fb,        \* the Framebuffer under test
    op,        \* the operation that produced the current state, with its arguments
    lastPass,  \* history: per pixel, depth of the latest write that passed the test since clear
    fresh,     \* history: pixels that received no point() call since the last clear()
    nops,      \* number of operations executed so far
    hist,      \* depth-tested writes submitted to fb, in submission order
    fbB,       \* a second Framebuffer, given the same writes as fb in an order of its own
    writes,    \* the set of depth-tested writes given to fb and to fbB
    todo,      \* writes not yet submitted to fb
    todoB,     \* writes not yet submitted to fbB
    frags,     \* the fragments of the latest render call
    cin,       \* inputs of the Color operation under test
    cout       \* result of the Color operation under test

vars == <<fb, op, lastPass, fresh, nops, hist, fbB, writes, todo, todoB, frags, cin, cout>>

----------------------------------------------------------------------------
(* Bounds of the model *)

\* width of the model frame buffer
FbW == 2
\* height of the model frame buffer
FbH == 1
\* operations per run of the Framebuffer state machine
MaxOps == 3

----------------------------------------------------------------------------
(* f32 *)

\* the finite value n / d, given in lowest terms with d > 0
Frac(n, d) == [k |-> "fin", n |-> n, d |-> d]
Fin(v) == Frac(v, 1)
INFINITY == [k |-> "inf", n |-> 0, d |-> 1]
NEG_INFINITY == [k |-> "ninf", n |-> 0, d |-> 1]
NAN == [k |-> "nan", n |-> 0, d |-> 1]

\* a < b on f32: false as soon as one side is NaN
FLt(a, b) ==
    /\ a.k # "nan"
    /\ b.k # "nan"
    /\ \/ a.k = "ninf" /\ b.k # "ninf"
       \/ a.k = "fin" /\ b.k = "fin" /\ a.n * b.d < b.n * a.d
       \/ a.k = "fin" /\ b.k = "inf"

----------------------------------------------------------------------------
(* Color *)

Color(r, g, b) == [r |-> r, g |-> g, b |-> b]

from_hex(hex) ==
    [r |-> (hex \div 65536) % 256, g |-> (hex \div 256) % 256, b |-> hex % 256]

\* to_hex with the blue channel shifted into the high byte
to_hex_blue_high(c) == c.b * 65536 + c.g * 256 + c.r

to_hex(c) == c.r * 65536 + c.g * 256 + c.b

----------------------------------------------------------------------------
(* Framebuffer *)

Pixels(f) == 0 .. (f.width * f.height - 1)

\* new with a zbuffer of one row
New_zbuffer_one_row(width, height) ==
    [ width |-> width,
      height |-> height,
      buffer |-> [i \in 0 .. (width * height - 1) |-> Color(0, 0, 0)],
      zbuffer |-> [i \in 0 .. (width - 1) |-> INFINITY],
      background_color |-> Color(0, 0, 0),
      current_color |-> Color(255, 255, 255),
      panic |-> FALSE ]

New(width, height) ==
    [ width |-> width,
      height |-> height,
      buffer |-> [i \in 0 .. (width * height - 1) |-> Color(0, 0, 0)],
      zbuffer |-> [i \in 0 .. (width * height - 1) |-> INFINITY],
      background_color |-> Color(0, 0, 0),
      current_color |-> Color(255, 255, 255),
      panic |-> FALSE ]

\* vec[index] = value on a Vec: aborts when index is out of range
SetBuffer(f, index, value) ==
    IF index \in DOMAIN f.buffer
    THEN [f EXCEPT !.buffer[index] = value]
    ELSE [f EXCEPT !.panic = TRUE]

SetZbuffer(f, index, value) ==
    IF index \in DOMAIN f.zbuffer
    THEN [f EXCEPT !.zbuffer[index] = value]
    ELSE [f EXCEPT !.panic = TRUE]

\* point with the store into the zbuffer left out
point_no_depth_store(f, x, y, depth) ==
    IF x < f.width /\ y < f.height
    THEN LET index == y * f.width + x IN
         IF FLt(depth, f.zbuffer[index])
         THEN SetBuffer(f, index, f.current_color)
         ELSE f
    ELSE f

\* point with the depth test left out
point_no_depth_test(f, x, y, depth) ==
    IF x < f.width /\ y < f.height
    THEN LET index == y * f.width + x IN
         SetZbuffer(SetBuffer(f, index, f.current_color), index, depth)
    ELSE f

\* point with the column and the row exchanged in the index
point_transposed(f, x, y, depth) ==
    IF x < f.width /\ y < f.height
    THEN LET index == x * f.width + y IN
         IF index \notin DOMAIN f.zbuffer
         THEN [f EXCEPT !.panic = TRUE]
         ELSE IF FLt(depth, f.zbuffer[index])
              THEN SetZbuffer(SetBuffer(f, index, f.current_color), index, depth)
              ELSE f
    ELSE f

\* point with the test of the column left out
point_no_column_check(f, x, y, depth) ==
    IF y < f.height
    THEN LET index == y * f.width + x IN
         IF index \notin DOMAIN f.zbuffer
         THEN [f EXCEPT !.panic = TRUE]
         ELSE IF FLt(depth, f.zbuffer[index])
              THEN SetZbuffer(SetBuffer(f, index, f.current_color), index, depth)
              ELSE f
    ELSE f

\* point with the test depth <= stored depth
point_depth_le(f, x, y, depth) ==
    IF x < f.width /\ y < f.height
    THEN LET index == y * f.width + x IN
         IF index \notin DOMAIN f.zbuffer
         THEN [f EXCEPT !.panic = TRUE]
         ELSE IF FLt(depth, f.zbuffer[index]) \/ (depth.k # "nan" /\ depth = f.zbuffer[index])
              THEN SetZbuffer(SetBuffer(f, index, f.current_color), index, depth)
              ELSE f
    ELSE f

point(f, x, y, depth) ==
    IF x < f.width /\ y < f.height
    THEN LET index == y * f.width + x IN
         IF index \notin DOMAIN f.zbuffer
         THEN [f EXCEPT !.panic = TRUE]
         ELSE IF FLt(depth, f.zbuffer[index])
              THEN SetZbuffer(SetBuffer(f, index, f.current_color), index, depth)
              ELSE f
    ELSE f

\* point_with_color that leaves alone a pixel whose stored depth is not +infinity
point_with_color_behind(f, x, y, color) ==
    IF x < f.width /\ y < f.height
    THEN IF f.zbuffer[y * f.width + x] = INFINITY
         THEN SetBuffer(f, y * f.width + x, color)
         ELSE f
    ELSE f

\* point_with_color that also takes the stored depth of its pixel back to +infinity
point_with_color_resets_depth(f, x, y, color) ==
    IF x < f.width /\ y < f.height
    THEN LET index == y * f.width + x IN
         IF index \notin DOMAIN f.buffer
         THEN [f EXCEPT !.panic = TRUE]
         ELSE SetZbuffer(SetBuffer(f, index, color), index, INFINITY)
    ELSE f

point_with_color(f, x, y, color) ==
    IF x < f.width /\ y < f.height
    THEN SetBuffer(f, y * f.width + x, color)
    ELSE f

set_background_color(f, hex) == [f EXCEPT !.background_color = from_hex(hex)]

set_current_color(f, hex) == [f EXCEPT !.current_color = from_hex(hex)]

\* clear with the reset of the zbuffer left out
clear_keeps_zbuffer(f) ==
    [f EXCEPT !.buffer = [i \in DOMAIN f.buffer |-> f.background_color]]

clear(f) ==
    [f EXCEPT !.buffer = [i \in DOMAIN f.buffer |-> f.background_color],
              !.zbuffer = [i \in DOMAIN f.zbuffer |-> INFINITY]]

RECURSIVE draw_rectangle_from(_, _, _, _, _, _, _)
\* the k-th and later iterations of the two nested loops (i outer, j inner)
draw_rectangle_from(f, x, y, width, height, color, k) ==
    IF k >= width * height
    THEN f
    ELSE draw_rectangle_from(
             point_with_color(f, x + (k \div height), y + (k % height), color),
             x, y, width, height, color, k + 1)

\* draw_rectangle with both loops running one step too far
draw_rectangle_inclusive(f, x, y, width, height, color) ==
    draw_rectangle_from(f, x, y, width + 1, height + 1, color, 0)

draw_rectangle(f, x, y, width, height, color) ==
    draw_rectangle_from(f, x, y, width, height, color, 0)

\* integer division of isize: the quotient is truncated towards zero
TruncDiv(a, b) == IF a >= 0 THEN a \div b ELSE -((-a) \div b)

Abs(a) == IF a < 0 THEN -a ELSE a

\* iterations the model follows the loop of draw_line before giving it up as endless
LineFuel == 12

RECURSIVE line_walk(_, _, _, _, _, _, _, _, _, _)
\* The loop of draw_line from the point (x0, y0) with error term err:
\* the points it visits, in order, and whether it reached its break.
line_walk(x0, y0, x1, y1, dx, dy, sx, sy, err, fuel) ==
    IF x0 = x1 /\ y0 = y1
    THEN [pts |-> <<[x |-> x0, y |-> y0]>>, done |-> TRUE]
    ELSE IF fuel = 0
    THEN [pts |-> <<[x |-> x0, y |-> y0]>>, done |-> FALSE]
    ELSE LET e2 == err
             stepx == e2 > -dx
             stepy == e2 < dy
             err1 == IF stepx THEN err - dy ELSE err
             err2 == IF stepy THEN err1 + dx ELSE err1
             nx == IF stepx THEN x0 + sx ELSE x0
             ny == IF stepy THEN y0 + sy ELSE y0
             rest == line_walk(nx, ny, x1, y1, dx, dy, sx, sy, err2, fuel - 1)
         IN  [pts |-> <<[x |-> x0, y |-> y0]>> \o rest.pts, done |-> rest.done]

line_points(x0, y0, x1, y1) ==
    LET dx == Abs(x1 - x0)
        dy == Abs(y1 - y0)
        sx == IF x0 < x1 THEN 1 ELSE -1
        sy == IF y0 < y1 THEN 1 ELSE -1
        err == TruncDiv(IF dx > dy THEN dx ELSE -dy, 2)
    IN  line_walk(x0, y0, x1, y1, dx, dy, sx, sy, err, LineFuel)

RECURSIVE plot_points(_, _, _, _)
\* the writes of draw_line for the visited points pts[k], pts[k+1], ...
plot_points(f, pts, hex, k) ==
    IF k > Len(pts)
    THEN f
    ELSE LET p == pts[k] IN
         plot_points(
             IF p.x >= 0 /\ p.x < f.width /\ p.y >= 0 /\ p.y < f.height
             THEN point_with_color(f, p.x, p.y, from_hex(hex))
             ELSE f,
             pts, hex, k + 1)

\* draw_line leaving its loop before it writes the end point
draw_line_open_end(f, x0, y0, x1, y1, hex) ==
    LET pts == line_points(x0, y0, x1, y1).pts
    IN  plot_points(f, SubSeq(pts, 1, Len(pts) - 1), hex, 1)

draw_line(f, x0, y0, x1, y1, hex) ==
    plot_points(f, line_points(x0, y0, x1, y1).pts, hex, 1)

\* round() of the non-negative quotient n / d: halves are rounded away from zero
RoundDiv(n, d) == (2 * n + d) \div (2 * d)

\* Texture::sample at u = un / ud, v = vn / vd, both in [0, 1]
sample(texture, un, ud, vn, vd) ==
    LET x == RoundDiv(un * (texture.width - 1), ud)
        y == RoundDiv(vn * (texture.height - 1), vd)
    IN  texture.image[<<x, y>>]

draw_skybox(f, texture) ==
    [f EXCEPT !.buffer =
        [i \in DOMAIN f.buffer |->
            sample(texture, i % f.width, f.width, i \div f.width, f.height)]]

----------------------------------------------------------------------------
(* Inputs of the Framebuffer state machine *)

BLACK == Color(0, 0, 0)
WHITE == Color(255, 255, 255)
\* the background colour main configures (0x333355)
BgHex == 3355477
WhiteHex == 16777215

Hexes == {BgHex, WhiteHex}
\* the colour point_with_color is given
OverlayColors == {from_hex(BgHex)}
Depths == {Fin(1), Fin(2), INFINITY, NAN}

\* coordinates offered to the operations: every pixel of the frame, one point past
\* the right edge and one past the bottom edge
Coords ==
    ((0 .. FbW - 1) \X (0 .. FbH - 1)) \cup {<<FbW, 0>>, <<0, FbH>>}

\* sizes of the rectangles drawn: one pixel, and the whole frame
RectSizes == {<<1, 1>>, <<FbW, FbH>>}
\* end points of the lines drawn: the first and the last pixel of the frame
LineEnds == {<<0, 0>>, <<FbW - 1, FbH - 1>>}

\* a 1x1 texture and a 2x2 texture
Textures ==
    { [width |-> 1, height |-> 1, image |-> [p \in {<<0, 0>>} |-> WHITE]],
      [width |-> 2, height |-> 2,
       image |-> [p \in {<<0, 0>>, <<1, 0>>, <<0, 1>>, <<1, 1>>} |->
                     IF p[1] = p[2] THEN from_hex(BgHex) ELSE WHITE]] }

NoOp == [name |-> "new", x |-> 0, y |-> 0, x1 |-> 0, y1 |-> 0,
         depth |-> NAN, color |-> BLACK, hex |-> 0, first |-> FALSE,
         shader |-> "none"]

Index(f, x, y) == y * f.width + x
InBounds(f, x, y) == x < f.width /\ y < f.height

----------------------------------------------------------------------------
(* The Framebuffer state machine: one action per public operation *)

IdleOthers == UNCHANGED <<hist, fbB, writes, todo, todoB, frags, cin, cout>>

Init ==
    /\ fb = New(FbW, FbH)
    /\ op = NoOp
    /\ lastPass = [i \in Pixels(fb) |-> INFINITY]
    /\ fresh = {}
    /\ nops = 0
    /\ hist = <<>>
    /\ fbB = New(0, 0)
    /\ writes = {}
    /\ todo = {}
    /\ todoB = {}
    /\ frags = <<>>
    /\ cin = <<>>
    /\ cout = <<>>

DoPoint ==
    \E p \in Coords, depth \in Depths :
        LET x == p[1]
            y == p[2]
        IN
        /\ nops < MaxOps
        /\ fb' = point(fb, x, y, depth)
        /\ op' = [NoOp EXCEPT !.name = "point", !.x = x, !.y = y, !.depth = depth,
                              !.first = InBounds(fb, x, y) /\ Index(fb, x, y) \in fresh]
        /\ lastPass' = IF InBounds(fb, x, y) /\ FLt(depth, fb.zbuffer[Index(fb, x, y)])
                       THEN [lastPass EXCEPT ![Index(fb, x, y)] = depth]
                       ELSE lastPass
        /\ fresh' = IF InBounds(fb, x, y) THEN fresh \ {Index(fb, x, y)} ELSE fresh
        /\ nops' = nops + 1
        /\ IdleOthers

DoPointWithColor ==
    \E p \in Coords, color \in OverlayColors :
        LET x == p[1]
            y == p[2]
        IN
        /\ nops < MaxOps
        /\ fb' = point_with_color(fb, x, y, color)
        /\ op' = [NoOp EXCEPT !.name = "point_with_color", !.x = x, !.y = y, !.color = color]
        /\ nops' = nops + 1
        /\ UNCHANGED <<lastPass, fresh>>
        /\ IdleOthers

DoSetBackgroundColor ==
    \E hex \in Hexes :
        /\ nops < MaxOps
        /\ fb' = set_background_color(fb, hex)
        /\ op' = [NoOp EXCEPT !.name = "set_background_color", !.hex = hex]
        /\ nops' = nops + 1
        /\ UNCHANGED <<lastPass, fresh>>
        /\ IdleOthers

DoSetCurrentColor ==
    \E hex \in Hexes :
        /\ nops < MaxOps
        /\ fb' = set_current_color(fb, hex)
        /\ op' = [NoOp EXCEPT !.name = "set_current_color", !.hex = hex]
        /\ nops' = nops + 1
        /\ UNCHANGED <<lastPass, fresh>>
        /\ IdleOthers

DoDrawRectangle ==
    \E p \in Coords, size \in RectSizes :
        /\ nops < MaxOps
        /\ fb' = draw_rectangle(fb, p[1], p[2], size[1], size[2], from_hex(BgHex))
        /\ op' = [NoOp EXCEPT !.name = "draw_rectangle"]
        /\ nops' = nops + 1
        /\ UNCHANGED <<lastPass, fresh>>
        /\ IdleOthers

DoClear ==
    /\ nops < MaxOps
    /\ fb' = clear(fb)
    /\ op' = [NoOp EXCEPT !.name = "clear"]
    /\ lastPass' = [i \in Pixels(fb) |-> INFINITY]
    /\ fresh' = Pixels(fb)
    /\ nops' = nops + 1
    /\ IdleOthers

DoDrawLine ==
    \E p \in Coords, end \in LineEnds :
        /\ nops < MaxOps
        /\ fb' = draw_line(fb, p[1], p[2], end[1], end[2], WhiteHex)
        /\ op' = [NoOp EXCEPT !.name = "draw_line"]
        /\ nops' = nops + 1
        /\ UNCHANGED <<lastPass, fresh>>
        /\ IdleOthers

DoDrawSkybox ==
    \E texture \in Textures :
        /\ nops < MaxOps
        /\ fb' = draw_skybox(fb, texture)
        /\ op' = [NoOp EXCEPT !.name = "draw_skybox", !.x = texture.width]
        /\ nops' = nops + 1
        /\ UNCHANGED <<lastPass, fresh>>
        /\ IdleOthers

Next ==
    \/ DoPoint
    \/ DoPointWithColor
    \/ DoSetBackgroundColor
    \/ DoSetCurrentColor
    \/ DoDrawRectangle
    \/ DoClear
    \/ DoDrawLine
    \/ DoDrawSkybox

Spec == Init /\ [][Next]_vars

----------------------------------------------------------------------------
(* Properties of the Framebuffer state machine *)

OpIndex == Index(fb, op.x, op.y)
OpInBounds == InBounds(fb, op.x, op.y)

\* C3: in every reachable state the zbuffer holds, for every pixel, the depth of
\* the most recent write that passed the depth test there since the last clear
\* (or construction), and +infinity where no write has passed.
C3_ZBufferInvariant ==
    \A i \in Pixels(fb) : fb.zbuffer[i] = lastPass[i]

\* a state where a write has passed at a pixel and a later point() there has failed
C3_Witness ==
    /\ op.name = "point"
    /\ OpInBounds
    /\ lastPass[OpIndex] # INFINITY
    /\ lastPass[OpIndex] # op.depth

\* a point() that passes the test and paints a colour set by set_current_color
C4_Witness ==
    /\ op.name = "point"
    /\ OpInBounds
    /\ lastPass[OpIndex] = op.depth
    /\ fb.current_color = from_hex(BgHex)
    /\ fb.buffer[OpIndex] = fb.current_color

\* C4 as claimed: outside clear(), whatever the operation, a pixel's colour changes
\* only under a write whose depth is strictly less than the depth stored there.
C4_Original ==
    [][\A i \in Pixels(fb) :
          (op'.name # "clear" /\ fb'.buffer[i] # fb.buffer[i])
              => (op'.name = "point" /\ FLt(op'.depth, fb.zbuffer[i]))]_vars

\* C4 as amended: point() changes the colour of a pixel only when that pixel is
\* the one addressed and the depth written is strictly less than the depth stored
\* there (the other drawing operations are not depth-tested).
C4_PointOverwritesOnlyCloser ==
    [][\A i \in Pixels(fb) :
          (op'.name = "point" /\ fb'.buffer[i] # fb.buffer[i])
              => /\ InBounds(fb, op'.x, op'.y)
                 /\ i = Index(fb, op'.x, op'.y)
                 /\ FLt(op'.depth, fb.zbuffer[i])]_vars

\* C5: after clear() every colour is the configured background colour and every
\* depth is +infinity.
C5_ClearResets ==
    op.name = "clear" =>
        \A i \in Pixels(fb) :
            /\ fb.buffer[i] = fb.background_color
            /\ fb.zbuffer[i] = INFINITY

\* clear() as the third operation, with a background colour that is not black
C5_Witness ==
    /\ op.name = "clear"
    /\ nops = MaxOps
    /\ fb.background_color # BLACK

\* C6 as claimed: the first point() at a pixel after clear() stores the current
\* colour and its depth, whatever the depth.
C6_Original ==
    (op.name = "point" /\ op.first) =>
        /\ fb.buffer[OpIndex] = fb.current_color
        /\ fb.zbuffer[OpIndex] = op.depth

\* C6 as amended: the first point() at a pixel after clear() stores the current
\* colour and its depth when the depth is less than +infinity (so not NaN).
C6_FirstPointPasses ==
    (op.name = "point" /\ op.first /\ FLt(op.depth, INFINITY)) =>
        /\ fb.buffer[OpIndex] = fb.current_color
        /\ fb.zbuffer[OpIndex] = op.depth

\* the first point() after a clear(), with a finite depth
C6_Witness ==
    /\ op.name = "point"
    /\ op.first
    /\ op.depth.k = "fin"

\* C7: point() and point_with_color() with x >= width or y >= height change no
\* field of the Framebuffer and do not abort.
C7_OutOfBoundsNoOp ==
    [][(op'.name \in {"point", "point_with_color"} /\ ~InBounds(fb, op'.x, op'.y))
          => (fb' = fb /\ ~fb'.panic)]_vars

\* an out-of-bounds point() on a frame buffer that holds a write
C7_Witness ==
    /\ op.name = "point"
    /\ ~OpInBounds
    /\ FLt(op.depth, INFINITY)
    /\ \E i \in Pixels(fb) : fb.zbuffer[i] # INFINITY

----------------------------------------------------------------------------
(* Sequences of depth-tested writes to one pixel of a cleared frame buffer *)

\* writes per sequence
MaxSeq == 3

\* the frame buffer as main sets it up for a frame: background configured, cleared
Cleared == clear(set_background_color(New(FbW, FbH), BgHex))

\* a depth-tested write as render issues it: set_current_color, then point
write(f, w) == point(set_current_color(f, w.hex), w.x, w.y, w.depth)

SeqDepths == {Fin(1), Fin(2), Fin(3), INFINITY, NAN}

SeqWrites ==
    { [x |-> x, y |-> y, depth |-> d, hex |-> h] :
        x \in 0 .. FbW - 1, y \in 0 .. FbH - 1, d \in SeqDepths, h \in Hexes }

InitSeq ==
    /\ fb = Cleared
    /\ op = [NoOp EXCEPT !.name = "clear"]
    /\ lastPass = [i \in Pixels(fb) |-> INFINITY]
    /\ fresh = Pixels(fb)
    /\ nops = 0
    /\ hist = <<>>
    /\ fbB = New(0, 0)
    /\ writes = {}
    /\ todo = {}
    /\ todoB = {}
    /\ frags = <<>>
    /\ cin = <<>>
    /\ cout = <<>>

SeqWrite ==
    \E w \in SeqWrites :
        /\ Len(hist) < MaxSeq
        /\ hist # <<>> => (w.x = hist[1].x /\ w.y = hist[1].y)
        /\ fb' = write(fb, w)
        /\ hist' = Append(hist, w)
        /\ UNCHANGED <<op, lastPass, fresh, nops, fbB, writes, todo, todoB, frags, cin, cout>>

NextSeq == SeqWrite

SpecSeq == InitSeq /\ [][NextSeq]_vars

\* the k-th write has the smallest depth of the sequence (NaN compares with nothing)
IsSmallest(k) ==
    /\ hist[k].depth # NAN
    /\ \A j \in 1 .. Len(hist) : ~FLt(hist[j].depth, hist[k].depth)

\* the writes that are below +infinity and have no write strictly below them
Closest ==
    { k \in 1 .. Len(hist) :
        /\ FLt(hist[k].depth, INFINITY)
        /\ \A j \in 1 .. Len(hist) : ~FLt(hist[j].depth, hist[k].depth) }

Earliest(S) == CHOOSE k \in S : \A j \in S : k <= j

\* C1 as claimed: after any sequence of depth-tested writes to one pixel of a
\* cleared frame buffer, the pixel holds the colour of the write with the
\* smallest depth.
C1_Original ==
    \A k \in 1 .. Len(hist) :
        IsSmallest(k) =>
            fb.buffer[Index(fb, hist[k].x, hist[k].y)] = from_hex(hist[k].hex)

\* C1 as amended: the pixel holds the colour of the earliest of the writes of
\* smallest depth when that depth is below +infinity, and the background colour
\* when no write has a depth below +infinity.
C1_ClosestWins ==
    hist # <<>> =>
        LET i == Index(fb, hist[1].x, hist[1].y) IN
        IF Closest = {}
        THEN fb.buffer[i] = fb.background_color
        ELSE fb.buffer[i] = from_hex(hist[Earliest(Closest)].hex)

\* depths 2, 1, 3 submitted in that order, the closest write in a colour of its own
C1_Witness ==
    /\ Len(hist) = 3
    /\ hist[1].depth = Fin(2)
    /\ hist[2].depth = Fin(1)
    /\ hist[3].depth = Fin(3)
    /\ hist[2].hex # hist[1].hex
    /\ hist[2].hex # hist[3].hex
    /\ fb.buffer[Index(fb, hist[2].x, hist[2].y)] = from_hex(hist[2].hex)

----------------------------------------------------------------------------
(* One set of depth-tested writes submitted to two frame buffers, each in an *)
(* order of its own                                                          *)

\* writes per set
MaxSet == 3

OrderDepths == {Fin(1), Fin(2), INFINITY}

\* the writes go to the first and to the last pixel of the frame
OrderWrites ==
    { [x |-> p[1], y |-> p[2], depth |-> d, hex |-> h] :
        p \in LineEnds, d \in OrderDepths, h \in Hexes }

InitOrder ==
    /\ writes \in {S \in SUBSET OrderWrites : Cardinality(S) <= MaxSet}
    /\ todo = writes
    /\ todoB = writes
    /\ fb = Cleared
    /\ fbB = Cleared
    /\ op = [NoOp EXCEPT !.name = "clear"]
    /\ lastPass = [i \in Pixels(fb) |-> INFINITY]
    /\ fresh = Pixels(fb)
    /\ nops = 0
    /\ hist = <<>>
    /\ frags = <<>>
    /\ cin = <<>>
    /\ cout = <<>>

SubmitA ==
    \E w \in todo :
        /\ fb' = write(fb, w)
        /\ todo' = todo \ {w}
        /\ UNCHANGED <<op, lastPass, fresh, nops, hist, fbB, writes, todoB, frags, cin, cout>>

SubmitB ==
    \E w \in todoB :
        /\ fbB' = write(fbB, w)
        /\ todoB' = todoB \ {w}
        /\ UNCHANGED <<op, lastPass, fresh, nops, hist, fb, writes, todo, frags, cin, cout>>

NextOrder == SubmitA \/ SubmitB

SpecOrder == InitOrder /\ [][NextOrder]_vars

BothSubmitted == todo = {} /\ todoB = {}

\* w has the smallest depth of the writes to its pixel, and it is below +infinity
IsClosestIn(S, w) ==
    /\ FLt(w.depth, INFINITY)
    /\ \A v \in S : (v.x = w.x /\ v.y = w.y) => ~FLt(v.depth, w.depth)

\* at every pixel the writes of smallest depth agree on the colour
ClosestAgree(S) ==
    \A w, v \in S :
        (w.x = v.x /\ w.y = v.y /\ IsClosestIn(S, w) /\ IsClosestIn(S, v))
            => from_hex(w.hex) = from_hex(v.hex)

\* C2 as claimed: submitted in any two orders, a set of depth-tested writes yields
\* the same final colour buffer and the same final depth buffer.
C2_Original ==
    BothSubmitted => (fb.buffer = fbB.buffer /\ fb.zbuffer = fbB.zbuffer)

\* C2 as amended: any two orders yield the same final depth buffer, and the same
\* final colour buffer when at every pixel the writes of smallest depth carry one
\* colour.
C2_OrderIndependent ==
    BothSubmitted =>
        /\ fb.zbuffer = fbB.zbuffer
        /\ ClosestAgree(writes) => fb.buffer = fbB.buffer

\* three writes, all submitted, two of them to one pixel with different depths
\* below +infinity and different colours
C2_Witness ==
    /\ BothSubmitted
    /\ Cardinality(writes) = 3
    /\ ClosestAgree(writes)
    /\ \E w, v \in writes :
          /\ w.x = v.x /\ w.y = v.y
          /\ FLt(w.depth, v.depth) /\ FLt(v.depth, INFINITY)
          /\ w.hex # v.hex
    /\ \E i \in Pixels(fb) : fb.buffer[i] # fb.background_color

----------------------------------------------------------------------------
(* Color arithmetic, channel by channel.  An operation yields the channels  *)
(* it returns and whether an intermediate value left the range of the       *)
(* integer type it was computed in (an abort in a debug build, a wrapped    *)
(* value in a release build).                                               *)

Min(a, b) == IF a < b THEN a ELSE b
Max(a, b) == IF a > b THEN a ELSE b

\* the value and the overflow of an operation on u8, u16 and i16
U8(x) == [val |-> x % 256, overflow |-> x < 0 \/ x > 255]
U16(x) == [val |-> x % 65536, overflow |-> x < 0 \/ x > 65535]
I16(x) == [val |-> ((x + 32768) % 65536) - 32768, overflow |-> x < -32768 \/ x > 32767]

\* a cast with as u8 of an integer: the low 8 bits, silently
AsU8(x) == x % 256

\* Color::clamp
clamp(value) == IF value < 0 THEN 0 ELSE IF value > 255 THEN 255 ELSE value

\* (base * blend / 255.0) as u8 on f32: the product and the quotient are exact
\* enough for the cast to give the integer quotient
blend_multiply_channel(base, blend) ==
    [val |-> (base * blend) \div 255, overflow |-> FALSE]

\* blend_add with the sum computed in u8
blend_add_channel_u8(base, blend) ==
    LET sum == U8(base + blend)
    IN  [val |-> AsU8(Min(sum.val, 255)), overflow |-> sum.overflow]

blend_add_channel(base, blend) ==
    LET sum == U16(base + blend)
    IN  [val |-> AsU8(Min(sum.val, 255)), overflow |-> sum.overflow]

blend_subtract_channel(base, blend) ==
    LET diff == I16(base - blend)
    IN  [val |-> AsU8(Min(Max(diff.val, 0), 255)), overflow |-> diff.overflow]

\* blend_screen with the product kept in a u8
blend_screen_channel_u8(base, blend) ==
    LET prod == U8((255 - base) * (255 - blend))
        res == U8(255 - prod.val \div 255)
    IN  [val |-> res.val, overflow |-> prod.overflow \/ res.overflow]

blend_screen_channel(base, blend) ==
    LET ib == U16(255 - base)
        il == U16(255 - blend)
        prod == U16(ib.val * il.val)
        quot == AsU8(prod.val \div 255)
        res == U8(255 - quot)
    IN  [val |-> res.val,
         overflow |-> ib.overflow \/ il.overflow \/ prod.overflow \/ res.overflow]

\* the + of Color with a wrapping addition
add_channel_wrapping(a, b) == [val |-> (a + b) % 256, overflow |-> FALSE]

\* u8::saturating_add
add_channel(a, b) == [val |-> Min(a + b, 255), overflow |-> FALSE]

\* ((channel as f32 * scalar).clamp(0.0, 255.0)) as u8: NaN (from a NaN scalar, or
\* from 0 times an infinity) is cast to 0; the cast truncates
mul_channel(channel, scalar) ==
    [val |-> CASE scalar.k = "nan" -> 0
               [] scalar.k = "inf" -> IF channel = 0 THEN 0 ELSE 255
               [] scalar.k = "ninf" -> 0
               [] OTHER -> IF channel * scalar.n < 0
                           THEN 0
                           ELSE Min((channel * scalar.n) \div scalar.d, 255),
     overflow |-> FALSE]

\* the Color built from three channel results
FromChannels(r, g, b) ==
    [val |-> Color(r.val, g.val, b.val),
     overflow |-> r.overflow \/ g.overflow \/ b.overflow]

\* is_black satisfied by one channel at 0
is_black_any_channel(c) == c.r = 0 \/ c.g = 0 \/ c.b = 0

is_black(c) == c.r = 0 /\ c.g = 0 /\ c.b = 0

blend_normal(base, blend) ==
    [val |-> IF is_black(blend) THEN base ELSE blend, overflow |-> FALSE]

blend_multiply(base, blend) ==
    FromChannels(blend_multiply_channel(base.r, blend.r),
                 blend_multiply_channel(base.g, blend.g),
                 blend_multiply_channel(base.b, blend.b))

blend_add(base, blend) ==
    FromChannels(blend_add_channel(base.r, blend.r),
                 blend_add_channel(base.g, blend.g),
                 blend_add_channel(base.b, blend.b))

blend_subtract(base, blend) ==
    FromChannels(blend_subtract_channel(base.r, blend.r),
                 blend_subtract_channel(base.g, blend.g),
                 blend_subtract_channel(base.b, blend.b))

blend_screen(base, blend) ==
    FromChannels(blend_screen_channel(base.r, blend.r),
                 blend_screen_channel(base.g, blend.g),
                 blend_screen_channel(base.b, blend.b))

add(a, b) ==
    FromChannels(add_channel(a.r, b.r), add_channel(a.g, b.g), add_channel(a.b, b.b))

mul(c, scalar) ==
    FromChannels(mul_channel(c.r, scalar), mul_channel(c.g, scalar),
                 mul_channel(c.b, scalar))

----------------------------------------------------------------------------
(* The Color operations applied to drawn inputs *)

\* channel values: both ends of the range, their neighbours and the middle
Channels == {0, 1, 128, 254, 255}

TestColors == {Color(r, g, b) : r \in Channels, g \in Channels, b \in Channels}

\* scalars of Color * f32: finite values that f32 holds exactly, and the specials
Scalars ==
    {Frac(0, 1), Frac(1, 2), Frac(1, 1), Frac(3, 2), Frac(2, 1), Frac(300, 1),
     Frac(-1, 1), INFINITY, NEG_INFINITY, NAN}

NoResult == [name |-> "none", val |-> BLACK, overflow |-> FALSE]

Result(name, res) == [name |-> name, val |-> res.val, overflow |-> res.overflow]

InitColor ==
    /\ cin \in [a : TestColors, b : TestColors, scalar : {Frac(1, 1)}]
               \cup [a : TestColors, b : {BLACK}, scalar : Scalars]
    /\ cout = NoResult
    /\ fb = New(0, 0)
    /\ op = NoOp
    /\ lastPass = [i \in Pixels(fb) |-> INFINITY]
    /\ fresh = {}
    /\ nops = 0
    /\ hist = <<>>
    /\ fbB = New(0, 0)
    /\ writes = {}
    /\ todo = {}
    /\ todoB = {}
    /\ frags = <<>>

IdleFramebuffer ==
    UNCHANGED <<fb, op, lastPass, fresh, nops, hist, fbB, writes, todo, todoB, frags, cin>>

DoBlendNormal ==
    /\ cout = NoResult
    /\ cout' = Result("blend_normal", blend_normal(cin.a, cin.b))
    /\ IdleFramebuffer

DoBlendMultiply ==
    /\ cout = NoResult
    /\ cout' = Result("blend_multiply", blend_multiply(cin.a, cin.b))
    /\ IdleFramebuffer

DoBlendAdd ==
    /\ cout = NoResult
    /\ cout' = Result("blend_add", blend_add(cin.a, cin.b))
    /\ IdleFramebuffer

DoBlendSubtract ==
    /\ cout = NoResult
    /\ cout' = Result("blend_subtract", blend_subtract(cin.a, cin.b))
    /\ IdleFramebuffer

DoBlendScreen ==
    /\ cout = NoResult
    /\ cout' = Result("blend_screen", blend_screen(cin.a, cin.b))
    /\ IdleFramebuffer

DoAdd ==
    /\ cout = NoResult
    /\ cout' = Result("add", add(cin.a, cin.b))
    /\ IdleFramebuffer

DoMul ==
    /\ cout = NoResult
    /\ cout' = Result("mul", mul(cin.a, cin.scalar))
    /\ IdleFramebuffer

NextColor ==
    \/ DoBlendNormal
    \/ DoBlendMultiply
    \/ DoBlendAdd
    \/ DoBlendSubtract
    \/ DoBlendScreen
    \/ DoAdd
    \/ DoMul

SpecColor == InitColor /\ [][NextColor]_vars

\* C10: every blend operator and Color + and * returns each channel in 0 .. 255,
\* and no intermediate value overflows the integer type it is computed in.
C10_ChannelsInRange ==
    cout.name # "none" =>
        /\ cout.val.r \in 0 .. 255
        /\ cout.val.g \in 0 .. 255
        /\ cout.val.b \in 0 .. 255
        /\ ~cout.overflow

\* the screen of black with black, whose intermediate product 255 * 255 is the
\* largest value the operators compute in u16
C10_Witness ==
    /\ cout.name = "blend_screen"
    /\ cin.a = BLACK
    /\ cin.b = BLACK
    /\ cout.val = BLACK

----------------------------------------------------------------------------
(* draw_line applied once to a cleared frame wide enough for the segment     *)
(* (0,0) - (5,0)                                                             *)

\* width and height of the frame the lines are drawn on
LineW == 6
LineH == 2

\* end points offered: every pixel of the frame, and the points one past its edges
LineCoords == (0 .. LineW) \X (0 .. LineH)

InitLine ==
    /\ fb \in {clear(set_background_color(New(LineW, LineH), h)) : h \in Hexes \cup {0}}
    /\ op = [NoOp EXCEPT !.name = "clear"]
    /\ lastPass = [i \in Pixels(fb) |-> INFINITY]
    /\ fresh = Pixels(fb)
    /\ nops = 0
    /\ hist = <<>>
    /\ fbB = New(0, 0)
    /\ writes = {}
    /\ todo = {}
    /\ todoB = {}
    /\ frags = <<>>
    /\ cin = <<>>
    /\ cout = <<>>

LineDraw ==
    \E p \in LineCoords, q \in LineCoords, hex \in Hexes :
        /\ op.name = "clear"
        /\ fb' = draw_line(fb, p[1], p[2], q[1], q[2], hex)
        /\ op' = [NoOp EXCEPT !.name = "draw_line", !.x = p[1], !.y = p[2],
                              !.x1 = q[1], !.y1 = q[2], !.hex = hex]
        /\ nops' = nops + 1
        /\ UNCHANGED <<lastPass, fresh, hist, fbB, writes, todo, todoB, frags, cin, cout>>

NextLine == LineDraw

SpecLine == InitLine /\ [][NextLine]_vars

\* the operation o is a draw_line along a row, both end points inside the frame f
HorizontalInside(f, o) ==
    /\ o.name = "draw_line"
    /\ o.y = o.y1
    /\ InBounds(f, o.x, o.y)
    /\ InBounds(f, o.x1, o.y1)

\* the pixels of the row of o between its end points, both included
Segment(f, o) ==
    { Index(f, x, o.y) : x \in Min(o.x, o.x1) .. Max(o.x, o.x1) }

\* C9: draw_line on a horizontal segment inside the frame sets the |x1-x0|+1
\* pixels between the end points, both included, to the line colour and changes
\* no other pixel (nor any depth).
C9_HorizontalLine ==
    [][HorizontalInside(fb, op') =>
          /\ Cardinality(Segment(fb, op')) = Abs(op'.x1 - op'.x) + 1
          /\ \A i \in Pixels(fb) :
                fb'.buffer[i] = IF i \in Segment(fb, op')
                                THEN from_hex(op'.hex)
                                ELSE fb.buffer[i]
          /\ fb'.zbuffer = fb.zbuffer
          /\ ~fb'.panic]_vars

\* the line from (0,0) to (5,0): the six pixels (0,0) .. (5,0) hold its colour and
\* the other pixels of the frame do not
C9_Witness ==
    /\ op.name = "draw_line"
    /\ op.x = 0 /\ op.y = 0 /\ op.x1 = 5 /\ op.y1 = 0
    /\ fb.background_color # from_hex(op.hex)
    /\ \A i \in Pixels(fb) : (fb.buffer[i] = from_hex(op.hex)) <=> (i \in 0 .. 5)

----------------------------------------------------------------------------
(* The fragment processing stage of render.  The fragments are those the     *)
(* rasteriser hands it; of a fragment the model keeps the screen position,   *)
(* the depth, the intensity and the value the noise sampler returns at the   *)
(* point the shader samples for it.                                          *)

\* fragments per run
MaxFrags == 2

\* a cast with as usize of an f32: truncated towards zero, NaN and the negative
\* values cast to 0, values above the range to usize::MAX
as_usize(a) ==
    CASE a.k = "nan" -> 0
      [] a.k = "ninf" -> 0
      [] a.k = "inf" -> 2147483647
      [] OTHER -> IF a.n < 0 THEN 0 ELSE a.n \div a.d

dalmata_shader(fragment) ==
    LET noise_color == IF FLt(fragment.noise_value, Frac(1, 2))
                       THEN Color(255, 255, 255)
                       ELSE Color(0, 0, 0)
    IN  mul(noise_color, fragment.intensity).val

cloud_shader(fragment) ==
    LET noise_color == IF FLt(Frac(1, 2), fragment.noise_value)
                       THEN Color(255, 255, 255)
                       ELSE Color(30, 97, 145)
    IN  mul(noise_color, fragment.intensity).val

Shaders == {"dalmata_shader", "cloud_shader"}

\* shader(&fragment, uniforms) for the shader the caller passed
shade(shader, fragment) ==
    IF shader = "dalmata_shader" THEN dalmata_shader(fragment) ELSE cloud_shader(fragment)

\* the iteration with the call of set_current_color left out
render_fragment_stale_color(f, fragment, shader) ==
    LET x == as_usize(fragment.position.x)
        y == as_usize(fragment.position.y)
    IN  IF x < f.width /\ y < f.height
        THEN point(f, x, y, fragment.depth)
        ELSE f

\* one iteration of the loop over the fragments
render_fragment(f, fragment, shader) ==
    LET x == as_usize(fragment.position.x)
        y == as_usize(fragment.position.y)
    IN  IF x < f.width /\ y < f.height
        THEN LET shaded_color == shade(shader, fragment)
                 color == to_hex(shaded_color)
             IN  point(set_current_color(f, color), x, y, fragment.depth)
        ELSE f

RECURSIVE render_fragments(_, _, _, _)
\* the loop over the fragments, from the k-th on
render_fragments(f, fragments, shader, k) ==
    IF k > Len(fragments)
    THEN f
    ELSE render_fragments(render_fragment(f, fragments[k], shader), fragments, shader, k + 1)

\* screen positions offered: the first and the last pixel of the frame, and the
\* points one step outside each of its four edges
FragPositions ==
    { [x |-> Fin(p[1]), y |-> Fin(p[2])] :
        p \in LineEnds \cup {<<-1, 0>>, <<0, -1>>, <<FbW, 0>>, <<0, FbH>>} }

Fragments ==
    [ position : FragPositions,
      depth : {Fin(1), Fin(2)},
      noise_value : {Fin(0), Fin(1)},
      intensity : {Fin(1)} ]

\* the lists of at most n fragments
FragLists(n) == UNION {[1 .. m -> Fragments] : m \in 0 .. n}

InitRender ==
    /\ fb = Cleared
    /\ op = [NoOp EXCEPT !.name = "clear"]
    /\ lastPass = [i \in Pixels(fb) |-> INFINITY]
    /\ fresh = Pixels(fb)
    /\ nops = 0
    /\ hist = <<>>
    /\ fbB = New(0, 0)
    /\ writes = {}
    /\ todo = {}
    /\ todoB = {}
    /\ frags = <<>>
    /\ cin = <<>>
    /\ cout = <<>>

\* a call of render: nops counts the fragments processed so far
Render ==
    \E shader \in Shaders, fragments \in FragLists(MaxFrags - nops) :
        /\ fb' = render_fragments(fb, fragments, shader, 1)
        /\ frags' = fragments
        /\ op' = [NoOp EXCEPT !.name = "render", !.shader = shader]
        /\ nops' = nops + Len(fragments)
        /\ UNCHANGED <<lastPass, fresh, hist, fbB, writes, todo, todoB, cin, cout>>

NextRender == Render

SpecRender == InitRender /\ [][NextRender]_vars

\* the screen position of the fragment lies outside the frame f
Outside(f, fragment) ==
    \/ FLt(fragment.position.x, Fin(0))
    \/ FLt(fragment.position.y, Fin(0))
    \/ ~FLt(fragment.position.x, Fin(f.width))
    \/ ~FLt(fragment.position.y, Fin(f.height))

\* C8 as claimed: a render call whose fragments all lie outside the visible frame
\* (x or y negative, x >= width or y >= height) changes no pixel colour and no
\* depth entry.
C8_Original ==
    [][(op'.name = "render" /\ \A k \in 1 .. Len(frags') : Outside(fb, frags'[k]))
          => (fb'.buffer = fb.buffer /\ fb'.zbuffer = fb.zbuffer)]_vars

----------------------------------------------------------------------------
(* Packing a Color with to_hex and unpacking the result with from_hex *)

\* colours packed: each channel in turn takes every value of a u8 while the two
\* other channels sit at an end of the range; and the colours of TestColors
HexColors ==
    {Color(v, e[1], e[2]) : v \in 0 .. 255, e \in {0, 255} \X {0, 255}}
        \cup {Color(e[1], v, e[2]) : v \in 0 .. 255, e \in {0, 255} \X {0, 255}}
        \cup {Color(e[1], e[2], v) : v \in 0 .. 255, e \in {0, 255} \X {0, 255}}
        \cup TestColors

InitHex ==
    /\ cin \in [c : HexColors]
    /\ cout = [stage |-> "color", hex |-> 0, val |-> BLACK]
    /\ fb = New(0, 0)
    /\ op = NoOp
    /\ lastPass = [i \in Pixels(fb) |-> INFINITY]
    /\ fresh = {}
    /\ nops = 0
    /\ hist = <<>>
    /\ fbB = New(0, 0)
    /\ writes = {}
    /\ todo = {}
    /\ todoB = {}
    /\ frags = <<>>

\* c.to_hex()
Pack ==
    /\ cout.stage = "color"
    /\ cout' = [cout EXCEPT !.stage = "packed", !.hex = to_hex(cin.c)]
    /\ IdleFramebuffer

\* Color::from_hex of the packed value
Unpack ==
    /\ cout.stage = "packed"
    /\ cout' = [cout EXCEPT !.stage = "unpacked", !.val = from_hex(cout.hex)]
    /\ IdleFramebuffer

NextHex ==
    \/ Pack
    \/ Unpack

SpecHex == InitHex /\ [][NextHex]_vars

\* C11: unpacking a packed colour gives the colour back; the packed value fits
\* 24 bits and its high byte is the red channel.
C11_RoundTrip ==
    /\ cout.stage = "unpacked" => cout.val = cin.c
    /\ cout.stage \in {"packed", "unpacked"} =>
           /\ cout.hex \in 0 .. 16777215
           /\ cout.hex \div 65536 = cin.c.r

\* a colour whose three channels differ has made the round trip
C11_Witness ==
    /\ cout.stage = "unpacked"
    /\ cin.c = Color(255, 0, 1)
    /\ cout.hex = 16711681
    /\ cout.val = Color(255, 0, 1)

----------------------------------------------------------------------------
(* Color::lerp *)

\* t.clamp(0.0, 1.0) on f32: a NaN stays a NaN
f32_clamp_unit(t) ==
    CASE t.k = "nan" -> NAN
      [] FLt(t, Fin(0)) -> Fin(0)
      [] FLt(Fin(1), t) -> Fin(1)
      [] OTHER -> t

\* round() of the finite value n / d (d > 0): halves go away from zero
Round(n, d) ==
    IF n >= 0 THEN (2 * n + d) \div (2 * d) ELSE -((d - 2 * n) \div (2 * d))

\* (a as f32 + (b as f32 - a as f32) * t).round() as u8, on the values of t that
\* keep the arithmetic exact in f32. An infinite t makes the product infinite, or
\* NaN when b = a; the cast saturates and turns NaN into 0.
lerp_channel(a, b, t) ==
    CASE t.k = "nan" -> 0
      [] t.k = "inf" -> IF b > a THEN 255 ELSE 0
      [] t.k = "ninf" -> IF b < a THEN 255 ELSE 0
      [] OTHER -> Min(Max(Round(a * t.d + (b - a) * t.n, t.d), 0), 255)

\* lerp with the factor used as given
lerp_unclamped(a, b, t) ==
    [val |-> Color(lerp_channel(a.r, b.r, t), lerp_channel(a.g, b.g, t),
                   lerp_channel(a.b, b.b, t)),
     overflow |-> FALSE]

lerp(a, b, t) ==
    LET tc == f32_clamp_unit(t)
    IN  [val |-> Color(lerp_channel(a.r, b.r, tc), lerp_channel(a.g, b.g, tc),
                       lerp_channel(a.b, b.b, tc)),
         overflow |-> FALSE]

\* factors: the two ends, values between them, values outside, and the specials
LerpFactors ==
    {Frac(0, 1), Frac(1, 4), Frac(1, 2), Frac(1, 1), Frac(-1, 2), Frac(-1, 1),
     Frac(3, 2), Frac(2, 1), INFINITY, NEG_INFINITY, NAN}

InitLerp ==
    /\ cin \in [a : TestColors, b : TestColors, t : LerpFactors]
    /\ cout = NoResult
    /\ fb = New(0, 0)
    /\ op = NoOp
    /\ lastPass = [i \in Pixels(fb) |-> INFINITY]
    /\ fresh = {}
    /\ nops = 0
    /\ hist = <<>>
    /\ fbB = New(0, 0)
    /\ writes = {}
    /\ todo = {}
    /\ todoB = {}
    /\ frags = <<>>

DoLerp ==
    /\ cout = NoResult
    /\ cout' = Result("lerp", lerp(cin.a, cin.b, cin.t))
    /\ IdleFramebuffer

SpecLerp == InitLerp /\ [][DoLerp]_vars

\* C12: a.lerp(b, t) is a when t is 0 or below, and b when t is 1 or above.
C12_LerpEnds ==
    cout.name = "lerp" =>
        /\ (cin.t = Fin(0) \/ FLt(cin.t, Fin(0))) => cout.val = cin.a
        /\ (cin.t = Fin(1) \/ FLt(Fin(1), cin.t)) => cout.val = cin.b

\* a factor above 1 has been clamped: black to white at t = 2 is white
C12_Witness ==
    /\ cout.name = "lerp"
    /\ cin.t = Fin(2)
    /\ cin.a = BLACK
    /\ cin.b = WHITE
    /\ cout.val = WHITE

----------------------------------------------------------------------------
(* blend_screen on every pair of channel values *)

\* colours whose channels each take every value of a u8, with black and white
RampColors ==
    {Color(v, 255 - v, (v + 128) % 256) : v \in 0 .. 255} \cup {BLACK, WHITE}

InitScreen ==
    /\ cin \in [a : RampColors, b : RampColors]
    /\ cout = NoResult
    /\ fb = New(0, 0)
    /\ op = NoOp
    /\ lastPass = [i \in Pixels(fb) |-> INFINITY]
    /\ fresh = {}
    /\ nops = 0
    /\ hist = <<>>
    /\ fbB = New(0, 0)
    /\ writes = {}
    /\ todo = {}
    /\ todoB = {}
    /\ frags = <<>>

Screen ==
    /\ cout = NoResult
    /\ cout' = Result("blend_screen", blend_screen(cin.a, cin.b))
    /\ IdleFramebuffer

SpecScreen == InitScreen /\ [][Screen]_vars

\* 255 - (255 - base)(255 - blend) / 255 with the division of the integers
ScreenOf(base, blend) == 255 - ((255 - base) * (255 - blend)) \div 255

\* C13: every channel of blend_screen is 255 - (255-base)*(255-blend)/255; so
\* screening with black gives the base colour and screening with white gives white.
C13_ScreenFormula ==
    cout.name = "blend_screen" =>
        /\ cout.val = Color(ScreenOf(cin.a.r, cin.b.r), ScreenOf(cin.a.g, cin.b.g),
                            ScreenOf(cin.a.b, cin.b.b))
        /\ cin.b = BLACK => cout.val = cin.a
        /\ cin.b = WHITE => cout.val = WHITE

\* two colours that are neither black nor white have been screened
C13_Witness ==
    /\ cout.name = "blend_screen"
    /\ cin.a = Color(100, 155, 228)
    /\ cin.b = Color(200, 55, 72)
    /\ cout.val = Color(222, 177, 236)

----------------------------------------------------------------------------
(* blend_normal, under SpecColor *)

\* C14: blend_normal returns the blend colour unless that colour is pure black,
\* and returns the base colour when it is.
C14_BlendNormal ==
    cout.name = "blend_normal" =>
        /\ cin.b # BLACK => cout.val = cin.b
        /\ cin.b = BLACK => cout.val = cin.a

\* a blend colour with two channels at 0 that is not black has won over white
C14_Witness ==
    /\ cout.name = "blend_normal"
    /\ cin.a = WHITE
    /\ cin.b = Color(0, 0, 1)
    /\ cout.val = Color(0, 0, 1)

----------------------------------------------------------------------------
(* blend_add and the + of Color applied to the same two colours, both ways round *)

InitSum ==
    /\ cin \in [a : TestColors, b : TestColors]
    /\ cout = {}
    /\ fb = New(0, 0)
    /\ op = NoOp
    /\ lastPass = [i \in Pixels(fb) |-> INFINITY]
    /\ fresh = {}
    /\ nops = 0
    /\ hist = <<>>
    /\ fbB = New(0, 0)
    /\ writes = {}
    /\ todo = {}
    /\ todoB = {}
    /\ frags = <<>>

\* the results obtained so far under the name n
Named(n) == {r \in cout : r.name = n}

\* a.blend_add(&b)
SumBlendAdd ==
    /\ Named("a.blend_add(b)") = {}
    /\ cout' = cout \cup {Result("a.blend_add(b)", blend_add(cin.a, cin.b))}
    /\ IdleFramebuffer

\* b.blend_add(&a)
SumBlendAddSwapped ==
    /\ Named("b.blend_add(a)") = {}
    /\ cout' = cout \cup {Result("b.blend_add(a)", blend_add(cin.b, cin.a))}
    /\ IdleFramebuffer

\* a + b
SumAdd ==
    /\ Named("a + b") = {}
    /\ cout' = cout \cup {Result("a + b", add(cin.a, cin.b))}
    /\ IdleFramebuffer

\* b + a
SumAddSwapped ==
    /\ Named("b + a") = {}
    /\ cout' = cout \cup {Result("b + a", add(cin.b, cin.a))}
    /\ IdleFramebuffer

NextSum ==
    \/ SumBlendAdd
    \/ SumBlendAddSwapped
    \/ SumAdd
    \/ SumAddSwapped

SpecSum == InitSum /\ [][NextSum]_vars

\* C15: a.blend_add(b) and a + b are the same colour, whose channels are
\* min(255, a_ch + b_ch); exchanging a and b changes nothing; adding black to a
\* colour gives that colour.
C15_AddIsBlendAdd ==
    /\ \A r \in cout :
           r.val = Color(Min(255, cin.a.r + cin.b.r), Min(255, cin.a.g + cin.b.g),
                         Min(255, cin.a.b + cin.b.b))
    /\ \A r \in Named("a.blend_add(b)"), q \in Named("a + b") : r.val = q.val
    /\ \A r \in Named("a.blend_add(b)"), q \in Named("b.blend_add(a)") : r.val = q.val
    /\ \A r \in Named("a + b"), q \in Named("b + a") : r.val = q.val
    /\ cin.b = BLACK => \A r \in Named("a.blend_add(b)") \cup Named("a + b") : r.val = cin.a
    /\ cin.a = BLACK => \A r \in Named("a.blend_add(b)") \cup Named("a + b") : r.val = cin.b

\* both operations have been applied, both ways round, to colours of which one
\* channel saturates, one reaches 255 exactly and one stays below
C15_Witness ==
    /\ cin.a = Color(128, 254, 1)
    /\ cin.b = Color(128, 1, 1)
    /\ {r.name : r \in cout} = {"a.blend_add(b)", "b.blend_add(a)", "a + b", "b + a"}
    /\ \A r \in cout : r.val = Color(255, 255, 2)

----------------------------------------------------------------------------
(* point_with_color, under Spec *)

\* C16: point_with_color at a pixel of the frame sets that pixel's colour to
\* the colour given, whatever depth is stored there, and changes nothing else:
\* not the zbuffer, not another pixel, not current_color, not background_color.
C16_PointWithColorWrites ==
    [][(op'.name = "point_with_color" /\ nops' = nops + 1 /\ InBounds(fb, op'.x, op'.y))
          => /\ fb'.buffer = [fb.buffer EXCEPT ![Index(fb, op'.x, op'.y)] = op'.color]
             /\ fb'.buffer[Index(fb, op'.x, op'.y)] = op'.color
             /\ fb'.zbuffer = fb.zbuffer
             /\ fb'.current_color = fb.current_color
             /\ fb'.background_color = fb.background_color
             /\ fb'.width = fb.width
             /\ fb'.height = fb.height]_vars

\* point_with_color has written a pixel at which a finite depth is stored
C16_Witness ==
    /\ op.name = "point_with_color"
    /\ OpInBounds
    /\ fb.zbuffer[OpIndex] = Fin(1)
    /\ fb.buffer[OpIndex] = op.color
    /\ op.color # fb.current_color

----------------------------------------------------------------------------
(* draw_rectangle on a frame buffer that holds depth-tested writes *)

\* size of the frame
RectFrameW == 3
RectFrameH == 2
\* depth-tested writes before the rectangle
MaxRectWrites == 1

\* corners offered: every pixel of the frame, and the first column and row past it
RectCorners == (0 .. RectFrameW) \X (0 .. RectFrameH)
\* sizes offered: from empty to one more than the frame
RectExtents == (0 .. RectFrameW + 1) \X (0 .. RectFrameH + 1)
\* the colour of the rectangle: neither the background nor the colour of the writes
RectColor == Color(255, 0, 0)

InitRect ==
    /\ fb = clear(set_background_color(New(RectFrameW, RectFrameH), BgHex))
    /\ op = NoOp
    /\ nops = 0
    /\ lastPass = [i \in Pixels(fb) |-> INFINITY]
    /\ fresh = {}
    /\ hist = <<>>
    /\ fbB = New(0, 0)
    /\ writes = {}
    /\ todo = {}
    /\ todoB = {}
    /\ frags = <<>>
    /\ cin = <<>>
    /\ cout = <<>>

\* a depth-tested write at depth 1 before the rectangle
RectPoint ==
    \E x \in 0 .. RectFrameW - 1, y \in 0 .. RectFrameH - 1 :
        /\ op.name # "draw_rectangle"
        /\ nops < MaxRectWrites
        /\ fb' = point(fb, x, y, Fin(1))
        /\ op' = [NoOp EXCEPT !.name = "point", !.x = x, !.y = y, !.depth = Fin(1)]
        /\ nops' = nops + 1
        /\ UNCHANGED <<lastPass, fresh, hist, fbB, writes, todo, todoB, frags, cin, cout>>

\* op.x1 and op.y1 record the width and the height of the rectangle
RectDraw ==
    \E p \in RectCorners, e \in RectExtents :
        /\ op.name # "draw_rectangle"
        /\ fb' = draw_rectangle(fb, p[1], p[2], e[1], e[2], RectColor)
        /\ op' = [NoOp EXCEPT !.name = "draw_rectangle", !.x = p[1], !.y = p[2],
                              !.x1 = e[1], !.y1 = e[2], !.color = RectColor]
        /\ UNCHANGED <<nops, lastPass, fresh, hist, fbB, writes, todo, todoB, frags, cin, cout>>

NextRect ==
    \/ RectPoint
    \/ RectDraw

SpecRect == InitRect /\ [][NextRect]_vars

\* the pixels of the frame f inside the block of the rectangle o
Block(f, o) ==
    {Index(f, px, py) : <<px, py>> \in
        {q \in (0 .. f.width - 1) \X (0 .. f.height - 1) :
            /\ o.x <= q[1] /\ q[1] < o.x + o.x1
            /\ o.y <= q[2] /\ q[2] < o.y + o.y1}}

----------------------------------------------------------------------------
(* Framebuffer::new for every size up to MaxDim, and the operations after it *)

\* largest width and height constructed
MaxDim == 2
\* operations after the construction
MaxSizedOps == 2

\* coordinates offered: the first pixel, the last pixel of the largest frame, and
\* the first column past the largest frame
SizedCoords == {<<0, 0>>, <<MaxDim - 1, MaxDim - 1>>, <<MaxDim, 0>>}

InitSized ==
    /\ fb \in {New(w, h) : w \in 0 .. MaxDim, h \in 0 .. MaxDim}
    /\ op = NoOp
    /\ nops = 0
    /\ lastPass = <<>>
    /\ fresh = {}
    /\ hist = <<>>
    /\ fbB = New(0, 0)
    /\ writes = {}
    /\ todo = {}
    /\ todoB = {}
    /\ frags = <<>>
    /\ cin = <<>>
    /\ cout = <<>>

\* one call of a method of the frame buffer
SizedOp ==
    /\ nops < MaxSizedOps
    /\ nops' = nops + 1
    /\ UNCHANGED <<lastPass, fresh, hist, fbB, writes, todo, todoB, frags, cin, cout>>
    /\ \/ \E p \in SizedCoords, depth \in {Fin(1), NAN} :
              /\ fb' = point(fb, p[1], p[2], depth)
              /\ op' = [NoOp EXCEPT !.name = "point"]
       \/ \E p \in SizedCoords :
              /\ fb' = point_with_color(fb, p[1], p[2], WHITE)
              /\ op' = [NoOp EXCEPT !.name = "point_with_color"]
       \/ /\ fb' = set_background_color(fb, BgHex)
          /\ op' = [NoOp EXCEPT !.name = "set_background_color"]
       \/ /\ fb' = set_current_color(fb, BgHex)
          /\ op' = [NoOp EXCEPT !.name = "set_current_color"]
       \/ \E p \in SizedCoords :
              /\ fb' = draw_rectangle(fb, p[1], p[2], MaxDim, MaxDim, WHITE)
              /\ op' = [NoOp EXCEPT !.name = "draw_rectangle"]
       \/ /\ fb' = clear(fb)
          /\ op' = [NoOp EXCEPT !.name = "clear"]
       \/ \E p \in SizedCoords, q \in SizedCoords :
              /\ fb' = draw_line(fb, p[1], p[2], q[1], q[2], WhiteHex)
              /\ op' = [NoOp EXCEPT !.name = "draw_line"]
       \/ \E texture \in Textures :
              /\ fb' = draw_skybox(fb, texture)
              /\ op' = [NoOp EXCEPT !.name = "draw_skybox"]

SpecSized == InitSized /\ [][SizedOp]_vars

\* C18: the buffer and the zbuffer have width * height entries each, from the
\* construction on and after every operation; right after the construction
\* every colour is black and every depth is +infinity.
C18_BufferSizes ==
    /\ DOMAIN fb.buffer = 0 .. (fb.width * fb.height - 1)
    /\ DOMAIN fb.zbuffer = 0 .. (fb.width * fb.height - 1)
    /\ Cardinality(DOMAIN fb.buffer) = fb.width * fb.height
    /\ Cardinality(DOMAIN fb.zbuffer) = fb.width * fb.height
    /\ op.name = "new" =>
           /\ \A i \in DOMAIN fb.buffer : fb.buffer[i] = Color(0, 0, 0)
           /\ \A i \in DOMAIN fb.zbuffer : fb.zbuffer[i] = INFINITY

\* a frame of MaxDim columns and one row less, after a write and a draw_skybox
C18_Witness ==
    /\ fb.width = MaxDim
    /\ fb.height = MaxDim - 1
    /\ op.name = "draw_skybox"
    /\ nops = MaxSizedOps
    /\ \E i \in DOMAIN fb.zbuffer : fb.zbuffer[i] = Fin(1)

----------------------------------------------------------------------------
(* The colours a render call commits, under SpecRender *)

\* the pixel render addresses for the fragment, when it is one of the frame f
Lands(f, fragment, i) ==
    /\ as_usize(fragment.position.x) < f.width
    /\ as_usize(fragment.position.y) < f.height
    /\ i = Index(f, as_usize(fragment.position.x), as_usize(fragment.position.y))

\* the k-th fragment of the list passes the depth test at pixel i of the frame f:
\* it is closer than the depth stored before the call and than every earlier
\* fragment of the call at that pixel
Passes(f, fragments, k, i) ==
    /\ Lands(f, fragments[k], i)
    /\ FLt(fragments[k].depth, f.zbuffer[i])
    /\ \A j \in 1 .. (k - 1) :
           Lands(f, fragments[j], i) =>
               (fragments[j].depth.k = "nan" \/ FLt(fragments[k].depth, fragments[j].depth))

\* C20: after a render call every pixel holds the output of the call's shader for
\* the last fragment that passed the depth test there, with that fragment's
\* depth; a pixel at which no fragment passed keeps its colour and its depth.
C20_RenderCommitsShaderOutput ==
    [][op'.name = "render" /\ nops' > nops
          => \A i \in Pixels(fb) :
                 LET passing == {k \in 1 .. Len(frags') : Passes(fb, frags', k, i)}
                 IN  IF passing = {}
                     THEN /\ fb'.buffer[i] = fb.buffer[i]
                          /\ fb'.zbuffer[i] = fb.zbuffer[i]
                     ELSE LET last == CHOOSE k \in passing : \A j \in passing : j <= k
                          IN  /\ fb'.buffer[i] = shade(op'.shader, frags'[last])
                              /\ fb'.zbuffer[i] = frags'[last].depth]_vars

\* cloud_shader has shaded two fragments of the first pixel, the second closer:
\* the pixel shows the sky colour of the second
C20_Witness ==
    /\ op.name = "render"
    /\ op.shader = "cloud_shader"
    /\ Len(frags) = 2
    /\ \A k \in 1 .. 2 : frags[k].position = [x |-> Fin(0), y |-> Fin(0)]
    /\ frags[1].depth = Fin(2) /\ frags[1].noise_value = Fin(1)
    /\ frags[2].depth = Fin(1) /\ frags[2].noise_value = Fin(0)
    /\ fb.buffer[0] = Color(30, 97, 145)
    /\ fb.zbuffer[0] = Fin(1)

----------------------------------------------------------------------------
(* The primitive assembly and the rasterization stages of render *)

\* transformed vertices per call
MaxVerts == 7

RECURSIVE primitive_assembly_from(_, _, _)
\* the loop over i in (0..transformed_vertices.len()).step_by(step), from i on
primitive_assembly_from(transformed_vertices, i, step) ==
    IF i >= Len(transformed_vertices)
    THEN <<>>
    ELSE (IF i + 2 < Len(transformed_vertices)
          THEN << <<transformed_vertices[i + 1], transformed_vertices[i + 2],
                    transformed_vertices[i + 3]>> >>
          ELSE <<>>)
         \o primitive_assembly_from(transformed_vertices, i + step, step)

\* the assembly with a window that slides by one vertex
primitive_assembly_strip(transformed_vertices) ==
    primitive_assembly_from(transformed_vertices, 0, 1)

primitive_assembly(transformed_vertices) ==
    primitive_assembly_from(transformed_vertices, 0, 3)

RECURSIVE GCD(_, _)
GCD(a, b) == IF b = 0 THEN a ELSE GCD(b, a % b)

\* the finite value n / d (d # 0) in lowest terms with a positive denominator
Norm(n, d) ==
    LET g == GCD(Abs(n), Abs(d))
        sgn == IF d < 0 THEN -1 ELSE 1
    IN  Frac(sgn * (n \div g), sgn * (d \div g))

\* twice the signed area of the triangle a, b, p, for points on the pixel grid
Edge(a, b, p) ==
    (b.x.n - a.x.n) * (p.y.n - a.y.n) - (b.y.n - a.y.n) * (p.x.n - a.x.n)

\* The rasterizer, for three vertices on the pixel grid: the fragments of the
\* pixels of the bounding box, clamped to the frame, whose three barycentric
\* weights lie in [0, 1], row by row; depth and model-space position are
\* interpolated with those weights. A triangle of area zero has no fragment.
triangle(v1, v2, v3) ==
    LET a == v1.transformed_position
        b == v2.transformed_position
        c == v3.transformed_position
        area == Edge(a, b, c)
        xmin == Max(Min(Min(a.x.n, b.x.n), c.x.n), 0)
        xmax == Min(Max(Max(a.x.n, b.x.n), c.x.n), FbW - 1)
        ymin == Max(Min(Min(a.y.n, b.y.n), c.y.n), 0)
        ymax == Min(Max(Max(a.y.n, b.y.n), c.y.n), FbH - 1)
        cols == IF xmax >= xmin THEN xmax - xmin + 1 ELSE 0
        rows == IF ymax >= ymin THEN ymax - ymin + 1 ELSE 0
        at(k) == [x |-> Fin(xmin + (k % cols)), y |-> Fin(ymin + (k \div cols))]
        w1(p) == Edge(b, c, p)
        w2(p) == Edge(c, a, p)
        w3(p) == Edge(a, b, p)
        inside(p) == IF area > 0
                     THEN w1(p) >= 0 /\ w2(p) >= 0 /\ w3(p) >= 0
                     ELSE w1(p) <= 0 /\ w2(p) <= 0 /\ w3(p) <= 0
        mix(p, f1, f2, f3) == Norm(w1(p) * f1.n + w2(p) * f2.n + w3(p) * f3.n, area)
        fragment(p) ==
            [position |-> p,
             depth |-> mix(p, a.z, b.z, c.z),
             vertex_position |->
                 [x |-> mix(p, v1.position.x, v2.position.x, v3.position.x),
                  y |-> mix(p, v1.position.y, v2.position.y, v3.position.y),
                  z |-> mix(p, v1.position.z, v2.position.z, v3.position.z)]]
    IN  IF area = 0 \/ cols = 0 \/ rows = 0
        THEN <<>>
        ELSE LET all == [k \in 1 .. cols * rows |-> at(k - 1)]
             IN  [k \in 1 .. Cardinality({j \in 1 .. cols * rows : inside(all[j])}) |->
                     fragment(all[CHOOSE j \in 1 .. cols * rows :
                         /\ inside(all[j])
                         /\ Cardinality({m \in 1 .. j : inside(all[m])}) = k])]

RECURSIVE rasterization_with_corners(_, _)
\* the stage with a fragment put at the first corner of every triangle, ahead of
\* the fragments of the rasterizer
rasterization_with_corners(triangles, k) ==
    IF k > Len(triangles)
    THEN <<>>
    ELSE << [position |-> [x |-> triangles[k][1].transformed_position.x,
                           y |-> triangles[k][1].transformed_position.y],
             depth |-> triangles[k][1].transformed_position.z,
             vertex_position |-> triangles[k][1].position] >>
         \o triangle(triangles[k][1], triangles[k][2], triangles[k][3])
         \o rasterization_with_corners(triangles, k + 1)

RECURSIVE rasterization(_, _)
\* for tri in &triangles { fragments.extend(triangle(..)) }, from the k-th on
rasterization(triangles, k) ==
    IF k > Len(triangles)
    THEN <<>>
    ELSE triangle(triangles[k][1], triangles[k][2], triangles[k][3])
         \o rasterization(triangles, k + 1)

\* a vertex after the vertex shader stage, at the screen position (x, y) with the
\* depth z; px and py are its model-space coordinates
Vertex(x, y, z, px, py) ==
    [ position |-> [x |-> Fin(px), y |-> Fin(py), z |-> Fin(0)],
      normal |-> [x |-> Fin(0), y |-> Fin(0), z |-> Fin(1)],
      tex_coords |-> [x |-> Fin(0), y |-> Fin(0)],
      color |-> BLACK,
      transformed_position |-> [x |-> Fin(x), y |-> Fin(y), z |-> Fin(z)],
      transformed_normal |-> [x |-> Fin(0), y |-> Fin(0), z |-> Fin(1)] ]

\* the three corners of a triangle that covers the frame, at two depths
AssemblyVertices ==
    {Vertex(0, 0, 1, 0, 0), Vertex(2 * FbW, 0, 1, 1, 0), Vertex(0, 2 * FbH, 2, 0, 1)}

\* render after its vertex shader stage: cin holds transformed_vertices
InitAssembly ==
    /\ cin \in [transformed_vertices :
                   UNION {[1 .. n -> AssemblyVertices] : n \in 0 .. MaxVerts}]
    /\ cout = [stage |-> "transformed", triangles |-> <<>>]
    /\ frags = <<>>
    /\ fb = Cleared
    /\ op = [NoOp EXCEPT !.name = "clear"]
    /\ lastPass = [i \in Pixels(fb) |-> INFINITY]
    /\ fresh = Pixels(fb)
    /\ nops = 0
    /\ hist = <<>>
    /\ fbB = New(0, 0)
    /\ writes = {}
    /\ todo = {}
    /\ todoB = {}

\* the primitive assembly stage
Assemble ==
    /\ cout.stage = "transformed"
    /\ cout' = [stage |-> "assembled",
                triangles |-> primitive_assembly(cin.transformed_vertices)]
    /\ UNCHANGED <<fb, op, lastPass, fresh, nops, hist, fbB, writes, todo, todoB, frags, cin>>

\* the rasterization stage
Rasterize ==
    /\ cout.stage = "assembled"
    /\ frags' = rasterization(cout.triangles, 1)
    /\ cout' = [cout EXCEPT !.stage = "rasterized"]
    /\ UNCHANGED <<fb, op, lastPass, fresh, nops, hist, fbB, writes, todo, todoB, cin>>

NextAssembly ==
    \/ Assemble
    \/ Rasterize

SpecAssembly == InitAssembly /\ [][NextAssembly]_vars

RECURSIVE GroupFragments(_, _)
\* the fragments of the k-th and the later complete groups of three vertices
GroupFragments(vertices, k) ==
    IF k > Len(vertices) \div 3
    THEN <<>>
    ELSE triangle(vertices[3 * k - 2], vertices[3 * k - 1], vertices[3 * k])
         \o GroupFragments(vertices, k + 1)

\* C19: the assembly makes floor(n / 3) triangles of the n transformed vertices,
\* the k-th of the vertices 3k, 3k+1, 3k+2 (counted from 0) in input order; the
\* one or two vertices left over are in no triangle, and the fragments are those
\* of the complete groups alone.
C19_TrianglesOfThree ==
    LET tv == cin.transformed_vertices IN
    /\ cout.stage \in {"assembled", "rasterized"} =>
           /\ Len(cout.triangles) = Len(tv) \div 3
           /\ \A k \in 1 .. Len(cout.triangles) :
                  cout.triangles[k] = <<tv[3 * k - 2], tv[3 * k - 1], tv[3 * k]>>
    /\ cout.stage = "rasterized" => frags = GroupFragments(tv, 1)

\* five vertices have given one triangle, and that triangle has fragments
C19_Witness ==
    /\ cout.stage = "rasterized"
    /\ Len(cin.transformed_vertices) = 5
    /\ Len(cout.triangles) = 1
    /\ cin.transformed_vertices[4] # cin.transformed_vertices[5]
    /\ Len(frags) = FbW * FbH

----------------------------------------------------------------------------
(* The frame loop of main *)

\* iterations of the loop
MaxFrames == 2
\* segments of an orbit (main asks for 100)
OrbitSegments == 1
\* translations.len()
NumBodies == 8

RECURSIVE render_orbit(_, _, _)
\* the second loop of render_orbit, from the k-th segment on: one draw_line per
\* segment, between the screen points computed for its two ends
render_orbit(f, segments, k) ==
    IF k > Len(segments)
    THEN f
    ELSE render_orbit(draw_line(f, segments[k][1], segments[k][2], segments[k][3],
                                segments[k][4], WhiteHex),
                      segments, k + 1)

\* the screen points of the segments of an orbit
Orbits == [1 .. OrbitSegments -> {<<0, 0, FbW - 1, FbH - 1>>, <<FbW, 0, 0, 0>>}]

\* the fragments of one render call of the loop: none, or one at the first pixel
FrameFragments ==
    {<<>>} \cup {<<[position |-> [x |-> Fin(0), y |-> Fin(0)], depth |-> d,
                   noise_value |-> Fin(0), intensity |-> Fin(1)]>> : d \in {Fin(1), Fin(2)}}

\* main before the loop: the frame buffer constructed, the background configured.
\* cout holds the position in the loop body (pc, and i in the loop over the
\* bodies) and, for the current iteration, the calls of clear and the draw calls
\* made and whether the buffer has been presented; nops counts the iterations.
InitFrame ==
    /\ fb = set_background_color(New(FbW, FbH), BgHex)
    /\ cout = [pc |-> "top", i |-> 0, clears |-> 0, draws |-> 0, presented |-> FALSE]
    /\ op = NoOp
    /\ nops = 0
    /\ lastPass = <<>>
    /\ fresh = {}
    /\ hist = <<>>
    /\ fbB = New(0, 0)
    /\ writes = {}
    /\ todo = {}
    /\ todoB = {}
    /\ frags = <<>>
    /\ cin = <<>>

\* the position after the body of the loop over the bodies, for the body i
after_body(i) ==
    IF i + 1 < NumBodies THEN [pc |-> "orbit", i |-> i + 1] ELSE [pc |-> "present", i |-> 0]

\* a step of the loop that leaves the frame buffer f and moves to the position to
Frame(f, to, name) ==
    /\ fb' = f
    /\ cout' = [cout EXCEPT !.pc = to.pc, !.i = to.i,
                            !.clears = IF name = "clear" THEN @ + 1 ELSE @,
                            !.draws = IF name \in {"render", "render_orbit"} THEN @ + 1 ELSE @,
                            !.presented = IF name = "present" THEN TRUE ELSE @]
    /\ op' = [NoOp EXCEPT !.name = name]
    /\ UNCHANGED <<nops, lastPass, fresh, hist, fbB, writes, todo, todoB, frags, cin>>

\* while window.is_open(), the test of Escape, and the handling of the input
FrameTop ==
    /\ cout.pc = "top"
    /\ fb' = fb
    /\ op' = [NoOp EXCEPT !.name = "input"]
    /\ \/ cout' = [cout EXCEPT !.pc = "exit"]
       \/ /\ nops < MaxFrames
          /\ cout' = [pc |-> "clear", i |-> 0, clears |-> 0, draws |-> 0, presented |-> FALSE]
    /\ UNCHANGED <<nops, lastPass, fresh, hist, fbB, writes, todo, todoB, frags, cin>>

\* the loop without its call of clear
FrameClear_missing ==
    /\ cout.pc = "clear"
    /\ Frame(fb, [pc |-> "ship", i |-> 0], "skip")

FrameClear ==
    /\ cout.pc = "clear"
    /\ Frame(clear(fb), [pc |-> "ship", i |-> 0], "clear")

\* render of the ship
FrameShip ==
    /\ cout.pc = "ship"
    /\ \E shader \in Shaders, fragments \in FrameFragments :
           Frame(render_fragments(fb, fragments, shader, 1), [pc |-> "orbit", i |-> 0], "render")

\* render_orbit of the body i, when it has an orbit and is visible
FrameOrbit ==
    /\ cout.pc = "orbit"
    /\ \/ Frame(fb, [pc |-> "planet", i |-> cout.i], "skip")
       \/ /\ cout.i # 2
          /\ cout.i < 7
          /\ \E segments \in Orbits :
                 Frame(render_orbit(fb, segments, 1), [pc |-> "planet", i |-> cout.i],
                       "render_orbit")

\* render of the body i, when it is visible; the body 6 has a moon
FramePlanet ==
    /\ cout.pc = "planet"
    /\ \/ Frame(fb, after_body(cout.i), "skip")
       \/ \E shader \in Shaders, fragments \in FrameFragments :
              Frame(render_fragments(fb, fragments, shader, 1),
                    IF cout.i = 6 THEN [pc |-> "moon", i |-> 6] ELSE after_body(cout.i),
                    "render")

FrameMoon ==
    /\ cout.pc = "moon"
    /\ \E shader \in Shaders, fragments \in FrameFragments :
           Frame(render_fragments(fb, fragments, shader, 1), after_body(cout.i), "render")

\* update_with_buffer(&framebuffer.to_u32_buffer(), ..): writes holds the buffer
\* handed over
FramePresent ==
    /\ cout.pc = "present"
    /\ fb' = fb
    /\ writes' = {[i \in DOMAIN fb.buffer |-> to_hex(fb.buffer[i])]}
    /\ cout' = [cout EXCEPT !.pc = "sleep", !.presented = TRUE]
    /\ op' = [NoOp EXCEPT !.name = "present"]
    /\ UNCHANGED <<nops, lastPass, fresh, hist, fbB, todo, todoB, frags, cin>>

\* sleep(frame_delay), and back to the top of the loop
FrameSleep ==
    /\ cout.pc = "sleep"
    /\ fb' = fb
    /\ cout' = [cout EXCEPT !.pc = "top"]
    /\ op' = [NoOp EXCEPT !.name = "sleep"]
    /\ nops' = nops + 1
    /\ UNCHANGED <<lastPass, fresh, hist, fbB, writes, todo, todoB, frags, cin>>

NextFrame ==
    \/ FrameTop
    \/ FrameClear
    \/ FrameShip
    \/ FrameOrbit
    \/ FramePlanet
    \/ FrameMoon
    \/ FramePresent
    \/ FrameSleep

SpecFrame == InitFrame /\ [][NextFrame]_vars

\* C21: in an iteration of the frame loop clear is called once, before any draw
\* call; the draw calls (render, render_orbit) come after it and before the
\* presentation; an iteration that reaches its end has cleared once and
\* presented; and from the presentation to the next clear nothing writes the
\* frame buffer. Only clear and the draw calls write it at all.
C21_FrameOrder ==
    [][/\ (cout' # cout /\ op'.name = "clear") =>
              (cout.clears = 0 /\ cout.draws = 0 /\ ~cout.presented /\ cout'.clears = 1)
       /\ (cout' # cout /\ op'.name \in {"render", "render_orbit"}) =>
              (cout.clears = 1 /\ ~cout.presented)
       /\ (cout' # cout /\ op'.name = "present") =>
              (cout.clears = 1 /\ cout.draws >= 1 /\ ~cout.presented
               /\ writes' = {[i \in DOMAIN fb.buffer |-> to_hex(fb.buffer[i])]})
       /\ (cout' # cout /\ op'.name = "sleep") => (cout.clears = 1 /\ cout.presented)
       /\ fb' # fb => op'.name \in {"clear", "render", "render_orbit"}
       /\ ((cout.presented \/ cout.clears = 0) /\ fb' # fb) => op'.name = "clear"]_vars

\* the second iteration has presented a buffer that three draw calls have written
C21_Witness ==
    /\ nops = 1
    /\ cout.pc = "sleep"
    /\ cout.presented
    /\ cout.clears = 1
    /\ cout.draws = 3
    /\ \E i \in DOMAIN fb.buffer : fb.buffer[i] = WHITE
    /\ \E i \in DOMAIN fb.zbuffer : fb.zbuffer[i] = Fin(1)

-----------------------------------------------------------------------------
(* The vertex shader *)

\* The arithmetic of f32 on the values the model follows: finite values are kept
\* exact, a zero is +0.
FAdd(a, b) ==
    CASE a.k = "nan" \/ b.k = "nan" -> NAN
      [] a.k = "fin" /\ b.k = "fin" -> Norm(a.n * b.d + b.n * a.d, a.d * b.d)
      [] a.k = "fin" -> b
      [] b.k = "fin" -> a
      [] OTHER -> IF a.k = b.k THEN a ELSE NAN

FMul(a, b) ==
    LET sign(v) == CASE v.k = "inf" -> 1
                     [] v.k = "ninf" -> -1
                     [] OTHER -> IF v.n > 0 THEN 1 ELSE IF v.n < 0 THEN -1 ELSE 0
    IN  CASE a.k = "nan" \/ b.k = "nan" -> NAN
          [] a.k = "fin" /\ b.k = "fin" -> Norm(a.n * b.n, a.d * b.d)
          [] OTHER -> IF sign(a) * sign(b) = 0 THEN NAN
                      ELSE IF sign(a) * sign(b) > 0 THEN INFINITY ELSE NEG_INFINITY

FSub(a, b) == FAdd(a, FMul(Fin(-1), b))

FDiv(a, b) ==
    CASE a.k = "nan" \/ b.k = "nan" -> NAN
      [] a.k = "fin" /\ b.k = "fin" ->
            IF b.n # 0 THEN Norm(a.n * b.d, a.d * b.n)
            ELSE IF a.n = 0 THEN NAN
            ELSE IF a.n > 0 THEN INFINITY ELSE NEG_INFINITY
      [] a.k = "fin" -> Fin(0)
      [] b.k = "fin" -> IF (a.k = "inf") = (b.n >= 0) THEN INFINITY ELSE NEG_INFINITY
      [] OTHER -> NAN

\* vectors are tuples, matrices tuples of rows
Dot(a, b) ==
    LET s3 == FAdd(FAdd(FMul(a[1], b[1]), FMul(a[2], b[2])), FMul(a[3], b[3]))
    IN  IF Len(a) = 3 THEN s3 ELSE FAdd(s3, FMul(a[4], b[4]))

MatVec(m, v) == [i \in DOMAIN m |-> Dot(m[i], v)]

MatMul(a, b) ==
    [i \in DOMAIN a |-> [j \in DOMAIN b[1] |-> Dot(a[i], [k \in DOMAIN b |-> b[k][j]])]]

transpose(m) == [i \in DOMAIN m[1] |-> [j \in DOMAIN m |-> m[j][i]]]

mat4_to_mat3(m) == [i \in 1 .. 3 |-> [j \in 1 .. 3 |-> m[i][j]]]

identity(n) == [i \in 1 .. n |-> [j \in 1 .. n |-> IF i = j THEN Fin(1) ELSE Fin(0)]]

\* Mat3::try_inverse: None when the determinant is zero, else the minors over the
\* determinant
try_inverse(m) ==
    LET minor(a, b, c, d) == FSub(FMul(m[a[1]][a[2]], m[b[1]][b[2]]),
                                  FMul(m[c[1]][c[2]], m[d[1]][d[2]]))
        minor_m12_m23 == minor(<<2, 2>>, <<3, 3>>, <<3, 2>>, <<2, 3>>)
        minor_m11_m23 == minor(<<2, 1>>, <<3, 3>>, <<3, 1>>, <<2, 3>>)
        minor_m11_m22 == minor(<<2, 1>>, <<3, 2>>, <<3, 1>>, <<2, 2>>)
        determinant == FAdd(FSub(FMul(m[1][1], minor_m12_m23),
                                 FMul(m[1][2], minor_m11_m23)),
                            FMul(m[1][3], minor_m11_m22))
        over(v) == FDiv(v, determinant)
    IN  IF determinant = Fin(0)
        THEN [some |-> FALSE, value |-> m]
        ELSE [some |-> TRUE,
              value |->
                << << over(minor_m12_m23),
                      over(minor(<<1, 3>>, <<3, 2>>, <<3, 3>>, <<1, 2>>)),
                      over(minor(<<1, 2>>, <<2, 3>>, <<2, 2>>, <<1, 3>>)) >>,
                   << over(FMul(Fin(-1), minor_m11_m23)),
                      over(minor(<<1, 1>>, <<3, 3>>, <<3, 1>>, <<1, 3>>)),
                      over(minor(<<1, 3>>, <<2, 1>>, <<2, 3>>, <<1, 1>>)) >>,
                   << over(minor_m11_m22),
                      over(minor(<<1, 2>>, <<3, 1>>, <<3, 2>>, <<1, 1>>)),
                      over(minor(<<1, 1>>, <<2, 2>>, <<2, 1>>, <<1, 2>>)) >> >>]

\* the fallback taken from the default of the type: the zero matrix
unwrap_or_default(option, default) ==
    IF option.some THEN option.value
    ELSE [i \in DOMAIN default |-> [j \in DOMAIN default |-> Fin(0)]]

unwrap_or(option, default) == IF option.some THEN option.value ELSE default

\* a vector and a matrix of whole numbers
Vec(v) == [i \in DOMAIN v |-> Fin(v[i])]
Mat(rows) == [i \in DOMAIN rows |-> Vec(rows[i])]

create_viewport_matrix(width, height) ==
    << <<Frac(width, 2), Fin(0), Fin(0), Frac(width, 2)>>,
       <<Fin(0), Frac(-height, 2), Fin(0), Frac(height, 2)>>,
       <<Fin(0), Fin(0), Fin(1), Fin(0)>>,
       <<Fin(0), Fin(0), Fin(0), Fin(1)>> >>

vertex_shader(vertex, uniforms) ==
    LET position == <<vertex.position[1], vertex.position[2], vertex.position[3], Fin(1)>>
        transformed ==
            MatVec(MatMul(MatMul(uniforms.projection_matrix, uniforms.view_matrix),
                          uniforms.model_matrix), position)
        w == transformed[4]
        ndc_position == <<FDiv(transformed[1], w), FDiv(transformed[2], w),
                          FDiv(transformed[3], w), Fin(1)>>
        screen_position == MatVec(uniforms.viewport_matrix, ndc_position)
        model_mat3 == mat4_to_mat3(uniforms.model_matrix)
        normal_matrix == unwrap_or(try_inverse(transpose(model_mat3)), identity(3))
        transformed_normal == MatVec(normal_matrix, vertex.normal)
    IN  [ position |-> vertex.position,
          normal |-> vertex.normal,
          tex_coords |-> vertex.tex_coords,
          color |-> vertex.color,
          transformed_position |->
              <<screen_position[1], screen_position[2], screen_position[3]>>,
          transformed_normal |-> transformed_normal ]

\* model matrices: the identity, a scaling by 2 and a shear, which can be inverted;
\* a scaling by 0, a flattening with a translation, and a matrix of rank 1 whose
\* last row is zero, which cannot
ModelMatrices ==
    { Mat(<< <<1, 0, 0, 0>>, <<0, 1, 0, 0>>, <<0, 0, 1, 0>>, <<0, 0, 0, 1>> >>),
      Mat(<< <<2, 0, 0, 0>>, <<0, 2, 0, 0>>, <<0, 0, 2, 0>>, <<0, 0, 0, 1>> >>),
      Mat(<< <<1, 1, 0, 3>>, <<0, 1, 0, 0>>, <<2, 0, 1, 0>>, <<0, 0, 0, 1>> >>),
      Mat(<< <<0, 0, 0, 0>>, <<0, 0, 0, 0>>, <<0, 0, 0, 0>>, <<0, 0, 0, 1>> >>),
      Mat(<< <<1, 0, 0, 1>>, <<0, 1, 0, 2>>, <<0, 0, 0, 0>>, <<0, 0, 0, 1>> >>),
      Mat(<< <<1, 2, -1, 0>>, <<2, 4, -2, 0>>, <<-1, -2, 1, 0>>, <<0, 0, 0, 0>> >>) }

\* the view: none, or a step back; the projection: none, or one that divides by -z
ViewMatrices ==
    { identity(4),
      Mat(<< <<1, 0, 0, 0>>, <<0, 1, 0, 0>>, <<0, 0, 1, -2>>, <<0, 0, 0, 1>> >>) }

ProjectionMatrices ==
    { identity(4),
      Mat(<< <<1, 0, 0, 0>>, <<0, 1, 0, 0>>, <<0, 0, 1, 1>>, <<0, 0, -1, 0>> >>) }

\* vertices as the loader hands them over, with the transformed fields not yet set
VertexInputs ==
    [ position : {Vec(<<0, 0, 0>>), Vec(<<1, -2, 2>>)},
      normal : {Vec(<<0, 0, 1>>), Vec(<<1, 2, -2>>), <<Frac(3, 5), Fin(0), Frac(-4, 5)>>},
      tex_coords : {<<Fin(0), Fin(0)>>, <<Frac(1, 2), Fin(1)>>},
      color : {BLACK, Color(200, 100, 50)},
      transformed_position : {Vec(<<0, 0, 0>>)},
      transformed_normal : {Vec(<<0, 0, 0>>)} ]

InitVertex ==
    /\ cin \in [ vertex : VertexInputs,
                 uniforms : [ model_matrix : ModelMatrices,
                              view_matrix : ViewMatrices,
                              projection_matrix : ProjectionMatrices,
                              viewport_matrix : {create_viewport_matrix(FbW, FbH)} ] ]
    /\ cout = <<>>
    /\ fb = New(0, 0)
    /\ op = NoOp
    /\ lastPass = [i \in Pixels(fb) |-> INFINITY]
    /\ fresh = {}
    /\ nops = 0
    /\ hist = <<>>
    /\ fbB = New(0, 0)
    /\ writes = {}
    /\ todo = {}
    /\ todoB = {}
    /\ frags = <<>>

\* one call of the vertex shader; the result is kept as the only element of cout
DoVertexShader ==
    /\ cout = <<>>
    /\ cout' = <<vertex_shader(cin.vertex, cin.uniforms)>>
    /\ IdleFramebuffer

SpecVertex == InitVertex /\ [][DoVertexShader]_vars

\* the block has a vector other than zero that it sends to zero
Singular(m) ==
    \E v \in (-2 .. 2) \X (-2 .. 2) \X (-2 .. 2) :
        /\ v # <<0, 0, 0>>
        /\ MatVec(mat4_to_mat3(m), Vec(v)) = Vec(<<0, 0, 0>>)

\* C22: vertex_shader returns a vertex for every input; position, normal,
\* tex_coords and color of the result are those of the input; and when the
\* upper-left 3x3 block of the model matrix cannot be inverted, the
\* transformed normal of the result is the input normal.
C22_VertexShaderSingular ==
    cout # <<>> =>
        /\ DOMAIN cout[1] = DOMAIN cin.vertex
        /\ cout[1].position = cin.vertex.position
        /\ cout[1].normal = cin.vertex.normal
        /\ cout[1].tex_coords = cin.vertex.tex_coords
        /\ cout[1].color = cin.vertex.color
        /\ Singular(cin.uniforms.model_matrix) =>
               cout[1].transformed_normal = cin.vertex.normal

\* a model matrix of rank 1 with a zero last row: w is 0, the screen position is
\* not a number, and the normal (1, 2, -2) is returned as it came
C22_Witness ==
    /\ cout # <<>>
    /\ Singular(cin.uniforms.model_matrix)
    /\ cin.uniforms.model_matrix[4] = Vec(<<0, 0, 0, 0>>)
    /\ cin.vertex.normal = Vec(<<1, 2, -2>>)
    /\ cin.vertex.position = Vec(<<1, -2, 2>>)
    /\ cout[1].transformed_normal = Vec(<<1, 2, -2>>)
    /\ cout[1].transformed_position[1] = NAN

-----------------------------------------------------------------------------
(* The noise shaders with their uniforms *)

\* calls of a shader in a behaviour
MaxCalls == 3
\* seconds the clock of main advances
MaxTime == 2

\* FastNoiseLite::get_noise_2d(&self, x, y): a fixed field over the plane, here
\* 3/4 on the points of noise.high, 1/2 on those of noise.edge, 1/4 elsewhere
get_noise_2d(noise, x, y) ==
    IF <<x, y>> \in noise.high THEN Frac(3, 4)
    ELSE IF <<x, y>> \in noise.edge THEN Frac(1, 2)
    ELSE Frac(1, 4)

\* noise_value of dalmata_shader
dalmata_noise(fragment, uniforms) ==
    LET zoom == Fin(100)
        ox == Fin(0)
        oy == Fin(0)
        x == fragment.vertex_position[1]
        y == fragment.vertex_position[2]
    IN  get_noise_2d(uniforms.noise, FMul(FAdd(x, ox), zoom), FMul(FAdd(y, oy), zoom))

\* the time offset taken in units of the zoomed plane
cloud_noise_zoomed_time(fragment, uniforms) ==
    LET zoom == Fin(300)
        x == fragment.vertex_position[1]
        y == fragment.vertex_position[2]
        t == FMul(Fin(uniforms.time), Frac(1, 2))
    IN  get_noise_2d(uniforms.noise,
                     FAdd(FAdd(FMul(x, zoom), Fin(100)), FMul(t, zoom)),
                     FAdd(FMul(y, zoom), Fin(10)))

\* noise_value of cloud_shader
cloud_noise(fragment, uniforms) ==
    LET zoom == Fin(300)
        ox == Fin(100)
        oy == Fin(10)
        x == fragment.vertex_position[1]
        y == fragment.vertex_position[2]
        t == FMul(Fin(uniforms.time), Frac(1, 2))
    IN  get_noise_2d(uniforms.noise, FAdd(FAdd(FMul(x, zoom), ox), t),
                     FAdd(FMul(y, zoom), oy))

\* fragments at two model-space positions, fully and half lit
ShadeFragments ==
    [ vertex_position : {Vec(<<0, 0, 0>>), Vec(<<1, -1, 0>>)},
      intensity : {Fin(1), Frac(1, 2)} ]

\* samplers: flat; high where both shaders sample the first fragment at time 0;
\* high where cloud_shader samples it at time 2 and on the threshold at time 0;
\* high only at x = 400, 300 further along than the sample of time 0
Noises ==
    { [high |-> {}, edge |-> {}],
      [high |-> {Vec(<<100, 10>>), Vec(<<0, 0>>)}, edge |-> {}],
      [high |-> {Vec(<<101, 10>>)}, edge |-> {Vec(<<100, 10>>), Vec(<<0, 0>>)}],
      [high |-> {Vec(<<400, 10>>)}, edge |-> {Vec(<<100, -100>>)}] }

InitShade ==
    /\ cin \in [fragment : ShadeFragments, uniforms : [time : {0}, noise : Noises]]
    /\ hist = <<>>
    /\ nops = 0
    /\ op = NoOp
    /\ cout = NoResult
    /\ fb = New(0, 0)
    /\ lastPass = [i \in Pixels(fb) |-> INFINITY]
    /\ fresh = {}
    /\ fbB = New(0, 0)
    /\ writes = {}
    /\ todo = {}
    /\ todoB = {}
    /\ frags = <<>>

\* a call shader(&fragment, &uniforms), with the colour it returns put on record
Call(shader, noise_value) ==
    /\ nops < MaxCalls
    /\ nops' = nops + 1
    /\ hist' = Append(hist,
                      [ shader |-> shader, fragment |-> cin.fragment,
                        uniforms |-> cin.uniforms,
                        color |-> shade(shader, [ intensity |-> cin.fragment.intensity,
                                                  noise_value |-> noise_value ]) ])
    /\ UNCHANGED <<fb, op, lastPass, fresh, fbB, writes, todo, todoB, frags, cin, cout>>

\* the sampled point moves with the number of calls made, as with a generator
\* that every call advances
DalmataCall_advancing ==
    Call("dalmata_shader",
         get_noise_2d(cin.uniforms.noise,
                      FMul(FAdd(cin.fragment.vertex_position[1], Fin(nops)), Fin(100)),
                      FMul(cin.fragment.vertex_position[2], Fin(100))))

DalmataCall == Call("dalmata_shader", dalmata_noise(cin.fragment, cin.uniforms))

CloudCall == Call("cloud_shader", cloud_noise(cin.fragment, cin.uniforms))

\* main takes the time of the next frame's uniforms from the clock
Tick ==
    /\ cin.uniforms.time < MaxTime
    /\ cin' = [cin EXCEPT !.uniforms.time = @ + 1]
    /\ UNCHANGED <<fb, op, lastPass, fresh, nops, hist, fbB, writes, todo, todoB, frags,
                   cout>>

NextShade == DalmataCall \/ CloudCall \/ Tick

SpecShade == InitShade /\ [][NextShade]_vars

CloudColor(value, intensity) ==
    mul(IF FLt(Frac(1, 2), value) THEN Color(255, 255, 255) ELSE Color(30, 97, 145),
        intensity).val

\* the sample of the noise at a point given by its numerators over 2
SampleAt(noise, x2, y2) == get_noise_2d(noise, Norm(x2, 2), Norm(y2, 2))

\* C24 as stated: cloud_shader returns the colour of the noise sampled at
\* (x*300 + 100 + time*0.5*300, y*300 + 10): white above 0.5, else (30, 97, 145),
\* times the intensity.
C24_Original ==
    \A i \in DOMAIN hist :
        hist[i].shader = "cloud_shader" =>
            LET f == hist[i].fragment
                u == hist[i].uniforms
            IN  hist[i].color =
                    CloudColor(SampleAt(u.noise,
                                        600 * f.vertex_position[1].n + 200 + 300 * u.time,
                                        600 * f.vertex_position[2].n + 20),
                               f.intensity)

\* C24, amended: cloud_shader returns the colour of the noise sampled at
\* (x*300 + 100 + time*0.5, y*300 + 10): white above 0.5, else (30, 97, 145),
\* times the intensity.
C24_CloudSample ==
    \A i \in DOMAIN hist :
        hist[i].shader = "cloud_shader" =>
            LET f == hist[i].fragment
                u == hist[i].uniforms
            IN  hist[i].color =
                    CloudColor(SampleAt(u.noise,
                                        600 * f.vertex_position[1].n + 200 + u.time,
                                        600 * f.vertex_position[2].n + 20),
                               f.intensity)

\* at time 2 the half-lit fragment at the origin is sampled at (101, 10), where
\* the noise is high: half white
C24_Witness ==
    \E i \in DOMAIN hist :
        /\ hist[i].shader = "cloud_shader"
        /\ hist[i].uniforms.time = 2
        /\ hist[i].uniforms.noise.high = {Vec(<<101, 10>>)}
        /\ hist[i].fragment.vertex_position = Vec(<<0, 0, 0>>)
        /\ hist[i].fragment.intensity = Frac(1, 2)
        /\ hist[i].color = Color(127, 127, 127)

-----------------------------------------------------------------------------
(* render of one triangle, degenerate ones among them *)

\* screen points of the corners: the pixels of the frame and one step past them
TrianglePoints == (0 .. FbW) \X (0 .. FbH + 1)

\* render after its vertex shader stage, on a cleared frame or on one that holds a
\* white pixel already; fbB keeps the frame as it was before the call
InitTriangle ==
    /\ cin \in [transformed_vertices :
                   [1 .. 3 -> {Vertex(p[1], p[2], 1, p[1], p[2]) : p \in TrianglePoints}]]
    /\ fb \in {Cleared, point_with_color(Cleared, 0, 0, WHITE)}
    /\ fbB = fb
    /\ frags = <<>>
    /\ cout = NoResult
    /\ op = NoOp
    /\ lastPass = [i \in Pixels(fb) |-> INFINITY]
    /\ fresh = {}
    /\ nops = 0
    /\ hist = <<>>
    /\ writes = {}
    /\ todo = {}
    /\ todoB = {}

\* the primitive assembly, rasterization and fragment stages of one call of
\* render; the fragments are fully lit and their noise is below the thresholds
RenderTriangle ==
    /\ nops = 0
    /\ nops' = 1
    /\ \E shader \in Shaders :
          LET fragments ==
                  rasterization(primitive_assembly(cin.transformed_vertices), 1)
              lit == [k \in DOMAIN fragments |->
                         [ position |-> fragments[k].position,
                           depth |-> fragments[k].depth,
                           vertex_position |-> fragments[k].vertex_position,
                           intensity |-> Fin(1),
                           noise_value |-> Fin(0) ]]
          IN  /\ frags' = lit
              /\ fb' = render_fragments(fb, lit, shader, 1)
              /\ op' = [NoOp EXCEPT !.name = shader]
    /\ UNCHANGED <<lastPass, fresh, hist, fbB, writes, todo, todoB, cin, cout>>

SpecTriangle == InitTriangle /\ [][RenderTriangle]_vars

\* the three corners lie on one line, or are one point: some direction other than
\* zero is at right angles to both sides that leave the first corner
Degenerate(tv) ==
    LET a == tv[1].transformed_position
        b == tv[2].transformed_position
        c == tv[3].transformed_position
        R == FbW + FbH + 1
    IN  \E p \in -R .. R, q \in -R .. R :
            /\ <<p, q>> # <<0, 0>>
            /\ p * (b.x.n - a.x.n) + q * (b.y.n - a.y.n) = 0
            /\ p * (c.x.n - a.x.n) + q * (c.y.n - a.y.n) = 0

-----------------------------------------------------------------------------
(* point, under Spec: the two outcomes of the depth test *)

\* C26: point(x, y, d) at a pixel of the frame with d greater than or equal to
\* the depth stored there, equality included, changes nothing; with d less than
\* the stored depth it sets the colour of that pixel to the current colour and
\* its depth to d, and changes nothing else.
C26_PointFailsOrWritesOnePixel ==
    [][(op'.name = "point" /\ nops' = nops + 1 /\ InBounds(fb, op'.x, op'.y)) =>
          LET i == Index(fb, op'.x, op'.y)
              stored == fb.zbuffer[i]
          IN  /\ (op'.depth = stored \/ FLt(stored, op'.depth)) => fb' = fb
              /\ ~FLt(op'.depth, stored) => fb' = fb
              /\ FLt(op'.depth, stored) =>
                     fb' = [fb EXCEPT !.buffer[i] = fb.current_color,
                                      !.zbuffer[i] = op'.depth]]_vars

\* a point() with the depth that is stored at its pixel, after the current colour
\* has changed: the pixel keeps the colour of the first write
C26_Witness ==
    /\ op.name = "point"
    /\ OpInBounds
    /\ op.depth.k = "fin"
    /\ fb.zbuffer[OpIndex] = op.depth
    /\ ~op.first
    /\ fb.buffer[OpIndex] # fb.current_color
    /\ fb.buffer[OpIndex] # fb.background_color

\* C28: outside clear() no operation raises the depth stored at a pixel, and
\* only point() changes it.
C28_DepthNeverIncreases ==
    [][op'.name # "clear" =>
          \A i \in Pixels(fb) :
              /\ fb'.zbuffer[i] = fb.zbuffer[i] \/ FLt(fb'.zbuffer[i], fb.zbuffer[i])
              /\ fb'.zbuffer[i] # fb.zbuffer[i] => op'.name = "point"]_vars

\* two point() calls have lowered the depths of two pixels from +infinity, and a
\* third, with a greater depth, has left the depth of its pixel as it was
C28_Witness ==
    /\ op.name = "point"
    /\ OpInBounds
    /\ op.depth = Fin(2)
    /\ fb.zbuffer[OpIndex] = Fin(1)
    /\ \E i \in Pixels(fb) : i # OpIndex /\ fb.zbuffer[i] = Fin(2)

-----------------------------------------------------------------------------
(* draw_line on end points of the whole range of usize *)

\* Width of usize and isize in the model. The targets of the program have 64 bits;
\* the casts and the subtractions of draw_line overflow in the same way at every
\* width, and the model follows them on short words.
WordBits == 4

\* the value and the overflow of an operation on isize
Isize(v) ==
    LET H == 2 ^ (WordBits - 1)
    IN  [val |-> ((v + H) % (2 * H)) - H, overflow |-> v < -H \/ v >= H]

\* The points draw_line visits for the arguments x0, y0, x1, y1 of type usize. The
\* casts to isize wrap silently. An overflow of x1 - x0, of abs or of -dy ends the
\* call with a panic in a build with overflow checks, and wraps in a build
\* without. The loop is followed for as many iterations as a word has values.
draw_line_walk(x0, y0, x1, y1, checked) ==
    LET ix0 == Isize(x0).val
        iy0 == Isize(y0).val
        ix1 == Isize(x1).val
        iy1 == Isize(y1).val
        xdiff == Isize(ix1 - ix0)
        ydiff == Isize(iy1 - iy0)
        xabs == Isize(Abs(xdiff.val))
        yabs == Isize(Abs(ydiff.val))
        dx == xabs.val
        dy == yabs.val
        sx == IF ix0 < ix1 THEN 1 ELSE -1
        sy == IF iy0 < iy1 THEN 1 ELSE -1
        neg == Isize(-dy)
        err == TruncDiv(IF dx > dy THEN dx ELSE neg.val, 2)
        overflow == \/ xdiff.overflow \/ ydiff.overflow
                    \/ xabs.overflow \/ yabs.overflow
                    \/ (dx <= dy /\ neg.overflow)
        walk == line_walk(ix0, iy0, ix1, iy1, dx, dy, sx, sy, err, 2 ^ WordBits)
    IN  IF checked /\ overflow
        THEN [pts |-> <<>>, done |-> FALSE, panic |-> TRUE]
        ELSE [pts |-> walk.pts, done |-> walk.done, panic |-> FALSE]

\* coordinates offered: the first pixels, the greatest value of isize, the least
\* value that the cast turns negative, and the greatest value of usize
WalkCoords ==
    {0, 1, 3, 2 ^ (WordBits - 1) - 1, 2 ^ (WordBits - 1), 2 ^ WordBits - 1}

InitWalk ==
    /\ cin \in [x0 : WalkCoords, y0 : {0, 2 ^ WordBits - 1}, x1 : WalkCoords,
                y1 : {0, 3}, hex : {WhiteHex}, checked : BOOLEAN]
    /\ cout = [name |-> "none", pts |-> <<>>, done |-> FALSE, panic |-> FALSE]
    /\ fb = Cleared
    /\ fbB = fb
    /\ op = NoOp
    /\ lastPass = [i \in Pixels(fb) |-> INFINITY]
    /\ fresh = {}
    /\ nops = 0
    /\ hist = <<>>
    /\ writes = {}
    /\ todo = {}
    /\ todoB = {}
    /\ frags = <<>>

\* one call of draw_line: the points visited, and the frame with the writes made
DoWalk ==
    /\ cout.name = "none"
    /\ LET walk == draw_line_walk(cin.x0, cin.y0, cin.x1, cin.y1, cin.checked)
       IN  /\ cout' = [name |-> "draw_line", pts |-> walk.pts, done |-> walk.done,
                       panic |-> walk.panic]
           /\ fb' = IF walk.panic
                    THEN [fb EXCEPT !.panic = TRUE]
                    ELSE plot_points(fb, walk.pts, cin.hex, 1)
    /\ UNCHANGED <<op, lastPass, fresh, nops, hist, fbB, writes, todo, todoB, frags, cin>>

SpecWalk == InitWalk /\ [][DoWalk]_vars

\* the argument v of type usize, as the isize that draw_line makes of it
Signed(v) == IF v >= 2 ^ (WordBits - 1) THEN v - 2 ^ WordBits ELSE v

\* C27 as stated: for every pair of end points draw_line returns, having visited
\* max(|x1-x0|, |y1-y0|) + 1 points, (x0, y0) first and (x1, y1) last, each at most
\* one pixel from the one before in x and in y and none outside the bounding box
\* of the end points; it has written the visited points that lie in the frame and
\* nothing else.
C27_Original ==
    cout.name = "draw_line" =>
        LET X0 == Signed(cin.x0)
            Y0 == Signed(cin.y0)
            X1 == Signed(cin.x1)
            Y1 == Signed(cin.y1)
            pts == cout.pts
            n == Len(pts)
            inframe(p) == p.x >= 0 /\ p.x < fb.width /\ p.y >= 0 /\ p.y < fb.height
        IN  /\ ~cout.panic
            /\ cout.done
            /\ n = Max(Abs(X1 - X0), Abs(Y1 - Y0)) + 1
            /\ pts[1] = [x |-> X0, y |-> Y0]
            /\ pts[n] = [x |-> X1, y |-> Y1]
            /\ \A k \in 1 .. n - 1 :
                   /\ Abs(pts[k + 1].x - pts[k].x) <= 1
                   /\ Abs(pts[k + 1].y - pts[k].y) <= 1
            /\ \A k \in 1 .. n :
                   /\ Min(X0, X1) <= pts[k].x /\ pts[k].x <= Max(X0, X1)
                   /\ Min(Y0, Y1) <= pts[k].y /\ pts[k].y <= Max(Y0, Y1)
            /\ \A i \in Pixels(fb) :
                   fb.buffer[i] =
                       IF \E k \in 1 .. n : inframe(pts[k]) /\ i = Index(fb, pts[k].x, pts[k].y)
                       THEN from_hex(cin.hex)
                       ELSE fbB.buffer[i]
            /\ fb.zbuffer = fbB.zbuffer

====
